---------------------------- MODULE Spec2Model ----------------------------
(***************************************************************************)
(* knx2mqtt / knxmonitor.                                                  *)
(*                                                                         *)
(* Two programs joined by an MQTT broker:                                  *)
(*   - knxmonitor (the consumer): MonitorMQTTClient hands telemetry to an  *)
(*     asyncio queue, dispatch_loop validates, buffers and broadcasts it   *)
(*     to the websocket viewers (MonitorSpec);                             *)
(*   - knx2mqtt (the producer): KNXDaemon turns KNX telegrams into         *)
(*     telemetry messages (DaemonSpec).                                    *)
(* An action is one run of a callback or one stretch of a coroutine        *)
(* between two suspension points (await).                                  *)
(***************************************************************************)
EXTENDS Integers, Sequences, FiniteSets

\* ------------------------------------------------------------------ bounds
\* settings.queue_size of the modelled run (asyncio.Queue(maxsize=...)), >= 1
QueueSize == 2
\* settings.buffer_size of the modelled run (deque(maxlen=...)), >= 1
BufferSize == 2
\* number of MQTT messages the broker delivers in a run
MaxMsgs == 3
\* number of websocket connections opened in a run
NumViewers == 2
\* number of KNX telegrams the bus delivers in a run
MaxTelegrams == 2
\* number of POST /api/read-group-addresses calls in a run
MaxRequests == 2
\* number of MQTT messages the broker delivers to knx2mqtt in a run
MaxCommands == 2
\* length of the longest destinations list of a request or command
MaxDests == 2
\* number of connection attempts of each broker client in a run
MaxConnects == 2
\* length of the longest rooms_to_monitor list
MaxRooms == 2
\* number of POST /api/nl-filter calls in a run
MaxSearches == 1

Viewers == 1..NumViewers

VARIABLES
    \* ---- knxmonitor
    nextId,              \* number of the next MQTT message the broker delivers
    handed,              \* parsed messages given to call_soon_threadsafe, in order
    scheduled,           \* loop callbacks _queue_message(data) not yet run
    queue,               \* runtime.queue
    enqueued,            \* messages put_nowait accepted, in order
    buffer,              \* runtime.buffer
    dispatched,          \* payloads dispatch_loop appended to the buffer, in order
    mlog,                \* knxmonitor's log records
    active_connections,  \* runtime.manager.active_connections
    ws,                  \* position of websocket_endpoint for each websocket
    frames,              \* frames sent on each websocket, in order
    joined,              \* Len(dispatched) when connect() added the websocket, -1 before
    pc,                  \* position of dispatch_loop: "get" (awaiting queue.get())
                         \* or "broadcast" (awaiting a send_json of broadcast_json)
    payload,             \* dispatch_loop: payload of the latest broadcast
    conns,               \* broadcast_json: the connections of list(self.active_connections)
    todo,                \* broadcast_json: those of conns not yet sent to
    stale,               \* broadcast_json: the connections of stale
                         \* (payload, conns and stale keep their last value until
                         \* the next broadcast starts)
    \* ---- knx2mqtt
    mqtt_client,         \* KNXDaemon.mqtt_client is set (TRUE) or None (FALSE)
    telegrams,           \* telegrams given to __telegram_received_cb, in order
    published,           \* messages given to client.publish on T/data, in order
    printed,             \* messages printed to the console, in order
    dlog,                \* knx2mqtt's log records
    callbacks,           \* how each call of __telegram_received_cb ended: what
                         \* client.publish did, whether the callback raised
    rooms_to_monitor,    \* KNXDaemon's rooms_to_monitor argument
    knx_project,         \* name and description of each device and group address
    address_filters,     \* KNXDaemon.address_filters
    registered,          \* the callback entry of xknx's telegram queue
    \* ---- the command channel (knxmonitor -> T/cmd -> knx2mqtt)
    requests,            \* POST /api/read-group-addresses calls handled, in order:
                         \* the body, what client.publish did, the response
    cmd_published,       \* payloads given to client.publish on T/cmd, in order
    commands,            \* messages given to MQTTClient.__on_message, in order
    has_loop,            \* hasattr(KNXDaemon, "loop"): __run_async has started
    coros,               \* read_group_addresses coroutines handed to the daemon's
                         \* loop by run_coroutine_threadsafe and not yet run
    bus_reads,           \* group_value_read calls made, in order
    cmdlog,              \* log records of the command channel, both programs
    \* ---- knxmonitor: startup and shutdown
    monitor_client,      \* runtime.mqtt_client: "none", "started" or "stopped"
    dispatch_task,       \* runtime.dispatch_task: "none", "running", "cancelling"
                         \* (cancel() called, CancelledError not yet raised in
                         \* it) or "done"
    shutdown,            \* position of shutdown_event: "idle", "awaiting" (at
                         \* `await runtime.dispatch_task`) or "done"
    at_shutdown,         \* what had been dispatched and sent when shutdown_event ended
    \* ---- the broker connections of both programs
    conn,                \* for each program, the state of its paho client
    connlog,             \* log records of the connection callbacks, in order
    \* ---- knxmonitor: the natural-language filter
    project_index,       \* runtime.project_index: whether it is loaded, its
                         \* devices and group_addresses lists
    searches             \* POST /api/nl-filter calls handled, in order: the
                         \* query and the response

mvars == <<nextId, handed, scheduled, queue, enqueued, buffer, dispatched, mlog,
           active_connections, ws, frames, joined, pc, payload, conns, todo, stale>>

dvars == <<mqtt_client, telegrams, published, printed, dlog, callbacks,
           rooms_to_monitor, knx_project, address_filters, registered>>

cvars == <<requests, cmd_published, commands, has_loop, coros, bus_reads, cmdlog>>

lvars == <<monitor_client, dispatch_task, shutdown, at_shutdown>>

nvars == <<conn, connlog>>

ivars == <<project_index, searches>>

xvars == <<cvars, lvars, nvars, ivars>>

vars == <<mvars, dvars, xvars>>

\* ------------------------------------------------------------ helpers
Min(a, b) == IF a < b THEN a ELSE b

Range(s) == {s[i] : i \in 1..Len(s)}

\* the last n elements of s, in order
LastN(s, n) == IF Len(s) <= n THEN s ELSE SubSeq(s, Len(s) - n + 1, Len(s))

\* the first n elements of s, in order
FirstN(s, n) == SubSeq(s, 1, Min(n, Len(s)))

\* the sequences over S of length 0..n
SeqsUpTo(S, n) == UNION {[1..k -> S] : k \in 0..n}

\* `sub in text` of two str, as sequences of characters: text has sub as a
\* contiguous part (the empty string is in every string); the characters are
\* compared as they are
Contains(text, sub) ==
    \E i \in 0..(Len(text) - Len(sub)) : SubSeq(text, i + 1, i + Len(sub)) = sub

\* paho's client.publish(topic, payload): returns a result whose rc is
\* MQTT_ERR_SUCCESS, returns one whose rc is an error (MQTT_ERR_NO_CONN,
\* MQTT_ERR_QUEUE_SIZE), or raises (ValueError)
PublishOutcomes == {"success", "rc_failure", "raises"}

\* ---------------------------------------------------- knxmonitor: messages
\* What the broker delivers on T/data: bytes that are not JSON, a JSON object
\* that lacks a required field, or a JSON object with the required fields
\* only. A message is [id, shape]; id numbers the deliveries.
Shapes == {"not_json", "missing_field", "minimal"}

\* JSON objects only: one that lacks a required field, one with a required
\* field of the wrong type (deviceid a number), and one with the required
\* fields and a field KnxMessage does not declare
SchemaShapes == {"missing_field", "wrong_type", "extra_field"}

\* (mutant) _on_message puts the message into the queue itself
OnMessagePutsDirectly(shape) ==
    /\ monitor_client = "started"
    /\ nextId <= MaxMsgs
    /\ nextId' = nextId + 1
    /\ LET m == [id |-> nextId, shape |-> shape] IN
       IF shape = "not_json"
       THEN /\ mlog' = mlog \cup {[ev |-> "malformed", id |-> m.id]}
            /\ UNCHANGED <<handed, queue, enqueued>>
       ELSE /\ handed' = Append(handed, m)
            /\ queue' = IF Len(queue) >= QueueSize THEN queue ELSE Append(queue, m)
            /\ enqueued' = IF Len(queue) >= QueueSize THEN enqueued ELSE Append(enqueued, m)
            /\ mlog' = IF Len(queue) >= QueueSize
                       THEN mlog \cup {[ev |-> "queue_full", id |-> m.id]}
                       ELSE mlog
    /\ UNCHANGED <<scheduled, buffer, dispatched, active_connections, ws,
                   frames, joined, pc, payload, conns, todo, stale>>
    /\ UNCHANGED <<dvars, xvars>>

\* (mutant) bytes that are not JSON are handed on as they are
json_loads_never_fails(shape) == FALSE

\* json.loads(msg.payload.decode()): the data, or an exception
json_loads_fails(shape) == shape = "not_json"

\* (mutant) the payload is passed on without validation
model_validate_accepts_all(m) == TRUE

\* (mutant) a wrongly typed field is coerced to the declared type
model_validate_coercing(m) ==
    m.shape \in {"minimal", "canonical", "extra_field", "canonical_extra", "wrong_type"}

\* KnxMessage.model_validate(raw_message): True when no ValidationError
\* (extra="allow": fields that are not declared are accepted)
model_validate(m) == m.shape \in {"minimal", "canonical", "extra_field", "canonical_extra"}

\* parsed.model_dump(by_alias=True): every declared field is present (the
\* optional ones default to None), and so are the fields that are not declared
model_dump(m) ==
    [id |-> m.id,
     shape |-> CASE m.shape = "minimal" -> "canonical"
                 [] m.shape = "extra_field" -> "canonical_extra"
                 [] OTHER -> m.shape]

\* asyncio.Queue.full(), for maxsize = QueueSize > 0
QueueFull(q) == Len(q) >= QueueSize

\* (mutant) a full queue makes room by discarding its oldest entry
put_nowait_evicting(q, m) == IF QueueFull(q) THEN Append(Tail(q), m) ELSE Append(q, m)

\* message_queue.put_nowait(message) inside `try ... except asyncio.QueueFull`:
\* the queue after the call (a full queue is left as it is)
put_nowait(q, m) == IF QueueFull(q) THEN q ELSE Append(q, m)

\* (mutant) a LIFO queue: the newest entry is returned
queue_get_newest(q) == [item |-> q[Len(q)], rest |-> SubSeq(q, 1, Len(q) - 1)]

\* asyncio.Queue.get on a non-empty queue: the oldest entry, and the queue left
queue_get(q) == [item |-> Head(q), rest |-> Tail(q)]

\* (mutant) a full buffer refuses the new entry
deque_append_keep_oldest(buf, m) == IF Len(buf) < BufferSize THEN Append(buf, m) ELSE buf

\* deque(maxlen=buffer_size).append
deque_append(buf, m) == LastN(Append(buf, m), BufferSize)

\* websocket_endpoint: {"type": "snapshot", "messages": list(runtime.buffer)}
SnapshotFrame(buf) == [type |-> "snapshot", messages |-> buf]

\* broadcast_json: the payload itself is the frame (tagged here to tell it
\* from a snapshot)
LiveFrame(m) == [type |-> "message", message |-> m]

\* ------------------------------------------------- knxmonitor: initial state
NoMessage == [id |-> 0, shape |-> "canonical"]

MInit ==
    /\ nextId = 1
    /\ handed = <<>>
    /\ scheduled = <<>>
    /\ queue = <<>>
    /\ enqueued = <<>>
    /\ buffer = <<>>
    /\ dispatched = <<>>
    /\ mlog = {}
    /\ active_connections = {}
    /\ ws = [v \in Viewers |-> "new"]
    /\ frames = [v \in Viewers |-> <<>>]
    /\ joined = [v \in Viewers |-> -1]
    /\ pc = "get"
    /\ payload = NoMessage
    /\ conns = {}
    /\ todo = {}
    /\ stale = {}

\* ------------------------------------------ knxmonitor: MonitorMQTTClient
\* _on_message, on the broker client's network thread
OnMessage(shape) ==
    /\ monitor_client = "started"
    /\ nextId <= MaxMsgs
    /\ nextId' = nextId + 1
    /\ LET m == [id |-> nextId, shape |-> shape] IN
       IF json_loads_fails(shape)
       THEN /\ mlog' = mlog \cup {[ev |-> "malformed", id |-> m.id]}
            /\ UNCHANGED <<handed, scheduled>>
       ELSE /\ scheduled' = Append(scheduled, m)
            /\ handed' = Append(handed, m)
            /\ UNCHANGED mlog
    /\ UNCHANGED <<queue, enqueued, buffer, dispatched, active_connections, ws,
                   frames, joined, pc, payload, conns, todo, stale>>
    /\ UNCHANGED <<dvars, xvars>>

\* _queue_message, run by the event loop for the oldest scheduled callback
QueueMessage ==
    /\ scheduled # <<>>
    /\ LET m == Head(scheduled) IN
       /\ queue' = put_nowait(queue, m)
       /\ IF QueueFull(queue)
          THEN /\ mlog' = mlog \cup {[ev |-> "queue_full", id |-> m.id]}
               /\ UNCHANGED enqueued
          ELSE /\ enqueued' = Append(enqueued, m)
               /\ UNCHANGED mlog
    /\ scheduled' = Tail(scheduled)
    /\ UNCHANGED <<nextId, handed, buffer, dispatched, active_connections, ws,
                   frames, joined, pc, payload, conns, todo, stale>>
    /\ UNCHANGED <<dvars, xvars>>

\* ------------------------------------------------ knxmonitor: dispatch_loop
\* Every await of the loop is a point where the other handlers may run; an
\* await that happens to return without suspending is the case where none does.
\* (mutant) the loop does not await broadcast_json: it takes the next message
\* while sends of the previous one are outstanding
DispatchGetWhileBroadcasting ==
    /\ dispatch_task = "running"
    /\ queue # <<>>
    /\ queue' = queue_get(queue).rest
    /\ LET raw_message == queue_get(queue).item IN
       IF ~model_validate(raw_message)
       THEN /\ mlog' = mlog \cup {[ev |-> "schema", id |-> raw_message.id]}
            /\ UNCHANGED <<buffer, dispatched, pc, payload, conns, todo, stale>>
       ELSE /\ payload' = model_dump(raw_message)
            /\ buffer' = deque_append(buffer, payload')
            /\ dispatched' = Append(dispatched, payload')
            /\ conns' = active_connections
            /\ todo' = active_connections
            /\ pc' = IF active_connections = {} THEN "get" ELSE "broadcast"
            /\ stale' = {}
            /\ UNCHANGED mlog
    /\ UNCHANGED <<nextId, handed, scheduled, enqueued, active_connections, ws,
                   frames, joined>>
    /\ UNCHANGED <<dvars, xvars>>

\* (mutant) the except clause of the loop ends it: a message that does not
\* validate finishes the dispatch task
DispatchGetStopsOnInvalid ==
    /\ dispatch_task = "running"
    /\ pc = "get"
    /\ queue # <<>>
    /\ queue' = queue_get(queue).rest
    /\ LET raw_message == queue_get(queue).item IN
       IF ~model_validate(raw_message)
       THEN /\ mlog' = mlog \cup {[ev |-> "schema", id |-> raw_message.id]}
            /\ dispatch_task' = "done"
            /\ UNCHANGED <<buffer, dispatched, pc, payload, conns, todo, stale>>
       ELSE /\ payload' = model_dump(raw_message)
            /\ buffer' = deque_append(buffer, payload')
            /\ dispatched' = Append(dispatched, payload')
            /\ conns' = active_connections
            /\ todo' = active_connections
            /\ pc' = IF active_connections = {} THEN "get" ELSE "broadcast"
            /\ stale' = {}
            /\ UNCHANGED <<mlog, dispatch_task>>
    /\ UNCHANGED <<nextId, handed, scheduled, enqueued, active_connections, ws,
                   frames, joined>>
    /\ UNCHANGED <<dvars, cvars, nvars, ivars, monitor_client, shutdown, at_shutdown>>

\* from `await runtime.queue.get()` returning to the next suspension point:
\* the first send of broadcast_json, or queue.get() again
DispatchGet ==
    /\ dispatch_task = "running"
    /\ pc = "get"
    /\ queue # <<>>
    /\ queue' = queue_get(queue).rest
    /\ LET raw_message == queue_get(queue).item IN
       IF ~model_validate(raw_message)
       THEN /\ mlog' = mlog \cup {[ev |-> "schema", id |-> raw_message.id]}
            /\ UNCHANGED <<buffer, dispatched, pc, payload, conns, todo, stale>>
       ELSE /\ payload' = model_dump(raw_message)
            /\ buffer' = deque_append(buffer, payload')
            /\ dispatched' = Append(dispatched, payload')
            /\ conns' = active_connections
            /\ todo' = active_connections
            /\ pc' = IF active_connections = {} THEN "get" ELSE "broadcast"
            /\ stale' = {}
            /\ UNCHANGED mlog
    /\ UNCHANGED <<nextId, handed, scheduled, enqueued, active_connections, ws,
                   frames, joined>>
    /\ UNCHANGED <<dvars, xvars>>

\* broadcast_json after the send to connection c ended with the stale list st:
\* the next send, or the loop over stale and back to queue.get()
BroadcastNext(c, st) ==
    /\ stale' = st
    /\ todo' = todo \ {c}
    /\ IF todo \ {c} = {}
       THEN /\ active_connections' = active_connections \ st
            /\ pc' = "get"
       ELSE /\ pc' = "broadcast"
            /\ UNCHANGED active_connections

\* `await connection.send_json(message)` returns for the next connection of
\* the list (a set listed in an unspecified order: any of those left)
BroadcastSendOk ==
    /\ dispatch_task = "running"
    /\ pc = "broadcast"
    /\ \E c \in todo :
          /\ frames' = [frames EXCEPT ![c] = Append(@, LiveFrame(payload))]
          /\ BroadcastNext(c, stale)
    /\ UNCHANGED <<nextId, handed, scheduled, queue, enqueued, buffer, dispatched,
                   mlog, ws, joined, payload, conns>>
    /\ UNCHANGED <<dvars, xvars>>

\* (mutant) the try encloses the whole for loop: the first send that raises
\* ends the broadcast
BroadcastSendRaisesEndsLoop ==
    /\ pc = "broadcast"
    /\ \E c \in todo :
          /\ stale' = stale \cup {c}
          /\ active_connections' = active_connections \ stale'
    /\ todo' = {}
    /\ pc' = "get"
    /\ UNCHANGED <<nextId, handed, scheduled, queue, enqueued, buffer, dispatched,
                   mlog, ws, frames, joined, payload, conns>>
    /\ UNCHANGED <<dvars, xvars>>

\* `await connection.send_json(message)` raises an Exception
BroadcastSendRaises ==
    /\ dispatch_task = "running"
    /\ pc = "broadcast"
    /\ \E c \in todo : BroadcastNext(c, stale \cup {c})
    /\ UNCHANGED <<nextId, handed, scheduled, queue, enqueued, buffer, dispatched,
                   mlog, ws, frames, joined, payload, conns>>
    /\ UNCHANGED <<dvars, xvars>>

\* -------------------------------------------- knxmonitor: websocket_endpoint
\* a client opens /ws: the handler runs up to `await websocket.accept()`
\* (the websockets are numbered in the order in which they are opened)
WsConnect(v) ==
    /\ ws[v] = "new"
    /\ \A u \in Viewers : u < v => ws[u] # "new"
    /\ ws' = [ws EXCEPT ![v] = "accepting"]
    /\ UNCHANGED <<nextId, handed, scheduled, queue, enqueued, buffer, dispatched,
                   mlog, active_connections, frames, joined, pc, payload, conns,
                   todo, stale>>
    /\ UNCHANGED <<dvars, xvars>>

\* accept() raises: connect() adds nothing, the handler ends
WsAcceptRaises(v) ==
    /\ ws[v] = "accepting"
    /\ ws' = [ws EXCEPT ![v] = "closed"]
    /\ UNCHANGED <<nextId, handed, scheduled, queue, enqueued, buffer, dispatched,
                   mlog, active_connections, frames, joined, pc, payload, conns,
                   todo, stale>>
    /\ UNCHANGED <<dvars, xvars>>

\* (mutant) the handler suspends between connect() and the snapshot
WsAcceptedSuspendsBeforeSnapshot(v) ==
    /\ \/ /\ ws[v] = "accepting"
          /\ joined' = [joined EXCEPT ![v] = Len(dispatched)]
          /\ active_connections' = active_connections \cup {v}
          /\ ws' = [ws EXCEPT ![v] = "added"]
          /\ UNCHANGED frames
       \/ /\ ws[v] = "added"
          /\ frames' = [frames EXCEPT ![v] =
                           IF buffer = <<>> THEN @ ELSE Append(@, SnapshotFrame(buffer))]
          /\ ws' = [ws EXCEPT ![v] = "open"]
          /\ UNCHANGED <<joined, active_connections>>
    /\ UNCHANGED <<nextId, handed, scheduled, queue, enqueued, buffer, dispatched,
                   mlog, pc, payload, conns, todo, stale>>
    /\ UNCHANGED <<dvars, xvars>>

\* (mutant) broadcast_json iterates over active_connections itself, not over
\* a copy: a websocket added during a broadcast is sent the payload too
WsAcceptedJoinsBroadcast(v) ==
    /\ ws[v] = "accepting"
    /\ joined' = [joined EXCEPT ![v] = Len(dispatched)]
    /\ \/ /\ buffer = <<>>
          /\ active_connections' = active_connections \cup {v}
          /\ ws' = [ws EXCEPT ![v] = "open"]
          /\ UNCHANGED <<frames, todo>>
       \/ /\ buffer # <<>>
          /\ frames' = [frames EXCEPT ![v] = Append(@, SnapshotFrame(buffer))]
          /\ active_connections' = active_connections \cup {v}
          /\ todo' = IF pc = "broadcast" THEN todo \cup {v} ELSE todo
          /\ ws' = [ws EXCEPT ![v] = "open"]
       \/ /\ buffer # <<>>
          /\ active_connections' = (active_connections \cup {v}) \ {v}
          /\ ws' = [ws EXCEPT ![v] = "closed"]
          /\ UNCHANGED <<frames, todo>>
    /\ UNCHANGED <<nextId, handed, scheduled, queue, enqueued, buffer, dispatched,
                   mlog, pc, payload, conns, stale>>
    /\ UNCHANGED <<dvars, xvars>>

\* accept() returns: connect() adds the websocket, then the snapshot is sent
\* when the buffer is not empty, up to `await websocket.receive_text()`
WsAccepted(v) ==
    /\ ws[v] = "accepting"
    /\ joined' = [joined EXCEPT ![v] = Len(dispatched)]
    /\ \/ /\ buffer = <<>>
          /\ active_connections' = active_connections \cup {v}
          /\ ws' = [ws EXCEPT ![v] = "open"]
          /\ UNCHANGED frames
       \/ /\ buffer # <<>>
          /\ frames' = [frames EXCEPT ![v] = Append(@, SnapshotFrame(buffer))]
          /\ active_connections' = active_connections \cup {v}
          /\ ws' = [ws EXCEPT ![v] = "open"]
       \/ /\ buffer # <<>>
          \* send_json raises: `except Exception` disconnects and re-raises
          /\ active_connections' = (active_connections \cup {v}) \ {v}
          /\ ws' = [ws EXCEPT ![v] = "closed"]
          /\ UNCHANGED frames
    /\ UNCHANGED <<nextId, handed, scheduled, queue, enqueued, buffer, dispatched,
                   mlog, pc, payload, conns, todo, stale>>
    /\ UNCHANGED <<dvars, xvars>>

\* receive_text() raises (WebSocketDisconnect or another Exception)
WsDisconnect(v) ==
    /\ ws[v] = "open"
    /\ active_connections' = active_connections \ {v}
    /\ ws' = [ws EXCEPT ![v] = "closed"]
    /\ UNCHANGED <<nextId, handed, scheduled, queue, enqueued, buffer, dispatched,
                   mlog, frames, joined, pc, payload, conns, todo, stale>>
    /\ UNCHANGED <<dvars, xvars>>

MNext ==
    \/ \E shape \in Shapes : OnMessage(shape)
    \/ QueueMessage
    \/ DispatchGet
    \/ BroadcastSendOk
    \/ BroadcastSendRaises
    \/ \E v \in Viewers : WsConnect(v)
    \/ \E v \in Viewers : WsAcceptRaises(v)
    \/ \E v \in Viewers : WsAccepted(v)
    \/ \E v \in Viewers : WsDisconnect(v)

\* ---------------------------------------------- knxmonitor: shutdown_event
\* the number of live frames sent so far, over all websockets
LiveCount(fr, S) ==
    LET count[T \in SUBSET S] ==
            IF T = {} THEN 0
            ELSE LET v == CHOOSE x \in T : TRUE
                 IN  Len(SelectSeq(fr[v], LAMBDA f : f.type = "message")) + count[T \ {v}]
    IN  count[S]

\* shutdown_event up to `await runtime.dispatch_task`: dispatch_task.cancel()
\* (dispatch_loop never returns, so the task is not done before)
ShutdownCancel ==
    /\ shutdown = "idle"
    /\ dispatch_task = "running"
    /\ dispatch_task' = "cancelling"
    /\ shutdown' = "awaiting"
    /\ at_shutdown' = [dispatched |-> Len(dispatched), live |-> -1]
    /\ UNCHANGED monitor_client
    /\ UNCHANGED <<mvars, dvars, cvars, nvars, ivars>>

\* CancelledError is raised in dispatch_loop at the await it is suspended at.
\* It is no Exception, so neither broadcast_json nor dispatch_loop catches it
\* and the task ends there; the loop over stale does not run. The frame of a
\* send that was under way has reached its websocket or has not.
DispatchCancelled ==
    /\ dispatch_task = "cancelling"
    /\ dispatch_task' = "done"
    /\ \/ UNCHANGED frames
       \/ /\ pc = "broadcast"
          /\ \E c \in todo : frames' = [frames EXCEPT ![c] = Append(@, LiveFrame(payload))]
    /\ UNCHANGED <<nextId, handed, scheduled, queue, enqueued, buffer, dispatched,
                   mlog, active_connections, ws, joined, pc, payload, conns, todo, stale>>
    /\ UNCHANGED <<monitor_client, shutdown, at_shutdown>>
    /\ UNCHANGED <<dvars, cvars, nvars, ivars>>

\* (mutant) the MQTT client is stopped without awaiting the cancelled task
ShutdownStopWithoutAwait ==
    /\ shutdown = "awaiting"
    /\ monitor_client' = "stopped"
    /\ shutdown' = "done"
    /\ at_shutdown' = [at_shutdown EXCEPT !.live = LiveCount(frames, Viewers)]
    /\ UNCHANGED dispatch_task
    /\ UNCHANGED <<mvars, dvars, cvars, nvars, ivars>>

\* shutdown_event from `await runtime.dispatch_task` raising CancelledError
\* to its end: runtime.mqtt_client.stop() (loop_stop, disconnect)
ShutdownStop ==
    /\ shutdown = "awaiting"
    /\ dispatch_task = "done"
    /\ monitor_client' = "stopped"
    /\ shutdown' = "done"
    /\ at_shutdown' = [at_shutdown EXCEPT !.live = LiveCount(frames, Viewers)]
    /\ UNCHANGED dispatch_task
    /\ UNCHANGED <<mvars, dvars, cvars, nvars, ivars>>

\* the pipeline with websockets that stay connected, and shutdown
LNext ==
    \/ \E shape \in Shapes : OnMessage(shape)
    \/ QueueMessage
    \/ DispatchGet
    \/ BroadcastSendOk
    \/ BroadcastSendRaises
    \/ \E v \in Viewers : WsConnect(v)
    \/ \E v \in Viewers : WsAccepted(v)
    \/ ShutdownCancel
    \/ DispatchCancelled
    \/ ShutdownStop

\* the pipeline when the telemetry topic carries JSON objects only and the
\* websockets, once opened, stay connected
SNext ==
    \/ \E shape \in SchemaShapes : OnMessage(shape)
    \/ QueueMessage
    \/ DispatchGet
    \/ BroadcastSendOk
    \/ \E v \in Viewers : WsConnect(v)
    \/ \E v \in Viewers : WsAccepted(v)

\* the pipeline with websockets that are open from the start and stay
\* connected until a send to them raises
PNext ==
    \/ \E shape \in Shapes : OnMessage(shape)
    \/ QueueMessage
    \/ DispatchGet
    \/ BroadcastSendOk
    \/ BroadcastSendRaises

\* the pipeline with websockets that, once opened, stay connected until a
\* send to them raises
VNext ==
    \/ \E shape \in Shapes : OnMessage(shape)
    \/ QueueMessage
    \/ DispatchGet
    \/ BroadcastSendOk
    \/ BroadcastSendRaises
    \/ \E v \in Viewers : WsConnect(v)
    \/ \E v \in Viewers : WsAccepted(v)

\* ------------------------------------------------ knxmonitor: ProjectIndex
\* str.lower() on ASCII text, character by character
LowerOf ==
    [A |-> "a", B |-> "b", C |-> "c", D |-> "d", E |-> "e", F |-> "f", G |-> "g", H |-> "h", I |-> "i", J |-> "j", K |-> "k", L |-> "l", M |-> "m", N |-> "n", O |-> "o", P |-> "p", Q |-> "q", R |-> "r", S |-> "s", T |-> "t", U |-> "u", V |-> "v", W |-> "w", X |-> "x", Y |-> "y", Z |-> "z"]

LowerLetters ==
    {"a", "b", "c", "d", "e", "f", "g", "h", "i", "j", "k", "l", "m", "n", "o", "p", "q", "r", "s", "t", "u", "v", "w", "x", "y", "z"}

Digits == {"0", "1", "2", "3", "4", "5", "6", "7", "8", "9"}

lower(text) ==
    [i \in 1..Len(text) |-> IF text[i] \in DOMAIN LowerOf THEN LowerOf[text[i]] ELSE text[i]]

\* a character of [a-zA-Z0-9]
Alnum(c) == c \in LowerLetters \cup DOMAIN LowerOf \cup Digits

\* re.split(r"[^a-zA-Z0-9]+", text) without the empty strings, from
\* position i on, cur being the token read so far
RECURSIVE split_from(_, _, _)
split_from(text, i, cur) ==
    LET done == IF cur = <<>> THEN <<>> ELSE <<cur>> IN
    IF i > Len(text) THEN done
    ELSE IF Alnum(text[i]) THEN split_from(text, i + 1, Append(cur, text[i]))
    ELSE done \o split_from(text, i + 1, <<>>)

\* tokenize(text)
tokenize(text) == split_from(lower(text), 1, <<>>)

\* f"{a} {b}"
Joined(a, b) == a \o <<" ">> \o b

\* _index_item(identifier, name, description)
index_item(identifier, name, description) ==
    [identifier |-> identifier, name |-> name, description |-> description,
     tokens |-> Range(tokenize(Joined(Joined(identifier, name), description)))]

\* IndexedItem.searchable_text
searchable_text(item) == lower(Joined(item.name, item.description))

\* re.match(r"^[a-z]?\d{2,4}[a-z]?$", t): an optional letter, two to four
\* digits, an optional letter, and nothing else
room_like_match(t) ==
    \E pre \in 0..1, post \in 0..1 :
        LET n == Len(t) - pre - post IN
        /\ n \in 2..4
        /\ pre = 1 => t[1] \in LowerLetters
        /\ post = 1 => t[Len(t)] \in LowerLetters
        /\ \A k \in (pre + 1)..(pre + n) : t[k] \in Digits

\* (mutant) an exact token match counts before a substring match
token_points_token_first(item, token) ==
    IF token \in item.tokens THEN 1
    ELSE IF Contains(searchable_text(item), token) THEN 2
    ELSE 0

\* _score_items: what one query token adds to the score of an item
token_points(item, token) ==
    IF Contains(searchable_text(item), token) THEN 2
    ELSE IF token \in item.tokens THEN 1
    ELSE 0

\* _score_items: the score after `for token in query_tokens` over the tokens
\* of S (a set: the order of the loop does not matter to a sum)
RECURSIVE score_tokens(_, _)
score_tokens(item, S) ==
    IF S = {} THEN 0
    ELSE LET token == CHOOSE x \in S : TRUE
         IN  token_points(item, token) + score_tokens(item, S \ {token})

\* _score_items: the score of an item
score(item, query_tokens, boost_terms) ==
    score_tokens(item, query_tokens) + Cardinality(boost_terms \cap item.tokens)

\* scored.sort(key=lambda pair: pair[0], reverse=True): a stable sort, so
\* the pairs of score n come first in their order, then those below n
RECURSIVE sort_descending(_, _)
sort_descending(scored, n) ==
    IF n <= 0 THEN <<>>
    ELSE SelectSeq(scored, LAMBDA pair : pair.score = n) \o sort_descending(scored, n - 1)

\* the highest score of a list of pairs (0 for an empty list)
max_score(scored) ==
    IF scored = <<>> THEN 0
    ELSE LET i == CHOOSE k \in 1..Len(scored) :
                      \A j \in 1..Len(scored) : scored[j].score <= scored[k].score
         IN  scored[i].score

\* _score_items(items, query_tokens, boost_terms)
score_items(items, query_tokens, boost_terms) ==
    LET all == [i \in 1..Len(items) |->
                   [score |-> score(items[i], query_tokens, boost_terms), item |-> items[i]]]
        scored == SelectSeq(all, LAMBDA pair : pair.score > 0)
    IN  sort_descending(scored, max_score(scored))

\* ProjectIndex.search: the default of its limit parameter
Limit == 100

\* ProjectIndex.search(query)
search(index, query) ==
    LET tokens == Range(tokenize(query))
        room_like == {t \in tokens : room_like_match(t)}
        identifiers(matches) == [i \in 1..Len(matches) |-> matches[i].item.identifier]
        devices == identifiers(FirstN(score_items(index.devices, tokens, room_like), Limit))
        destinations ==
            identifiers(FirstN(score_items(index.group_addresses, tokens, room_like), Limit))
    IN  IF tokens = {}
        THEN [devices |-> <<>>, destinations |-> <<>>, explanation |-> "no_tokens"]
        ELSE [devices |-> devices, destinations |-> destinations, explanation |-> "matched"]

\* name and description of the indexed entries: the light of room F200, a
\* hall lamp, an entry without texts, an entry of room F2000
IndexTexts ==
    {[name |-> <<"F", "2", "0", "0", " ", "L", "i", "v", "i", "n", "g", " ", "R", "o", "o", "m", " ", "L", "i", "g", "h", "t">>,
      description |-> <<"m", "a", "i", "n", " ", "l", "i", "g", "h", "t", " ", "s", "w", "i", "t", "c", "h">>],
     [name |-> <<"H", "a", "l", "l", " ", "l", "a", "m", "p">>, description |-> <<>>],
     [name |-> <<>>, description |-> <<>>],
     [name |-> <<"H", "i", "g", "h", "l", "i", "g", "h", "t", " ", "F", "2", "0", "0", "0">>, description |-> <<>>]}

\* the project of the index: two devices and two group addresses, in the
\* order of the project's dicts
IndexDevices == <<<<"1", ".", "1", ".", "1">>, <<"1", ".", "1", ".", "2">>>>

IndexGroupAddresses == <<<<"1", "/", "1", "/", "1">>, <<"1", "/", "1", "/", "2">>>>

\* ProjectIndex.load() for the project whose entry k has the texts texts[k]
load(texts) ==
    LET items(keys) == [i \in 1..Len(keys) |->
                           index_item(keys[i], texts[keys[i]].name, texts[keys[i]].description)]
    IN  [loaded |-> TRUE,
         devices |-> items(IndexDevices),
         group_addresses |-> items(IndexGroupAddresses)]

\* runtime.project_index is None (no project file, or it could not be loaded)
NotLoaded == [loaded |-> FALSE, devices |-> <<>>, group_addresses |-> <<>>]

\* the queries of the runs
Queries ==
    {<<"f", "2", "0", "0", " ", "l", "i", "g", "h", "t">>, <<"l", "i", "g", "h", "t", " ", "l", "i", "g", "h", "t">>, <<"F", "2", "0", "0">>,
     <<"2", "0", "0">>, <<"2">>, <<"h", "a", "l", "l", ",", " ", "1">>, <<"!", "?">>}

\* the responses of POST /api/nl-filter
Unavailable ==
    [status |-> 503, devices |-> <<>>, destinations |-> <<>>, explanation |-> "error"]

Found(result) ==
    [status |-> 200, devices |-> result.devices, destinations |-> result.destinations,
     explanation |-> result.explanation]

\* nl_filter(body)
NlFilter(query) ==
    /\ Len(searches) < MaxSearches
    /\ searches' = Append(searches,
           [query |-> query,
            response |-> IF ~project_index.loaded THEN Unavailable
                         ELSE Found(search(project_index, query))])
    /\ UNCHANGED project_index
    /\ UNCHANGED <<mvars, dvars, cvars, lvars, nvars>>

INext == \E query \in Queries : NlFilter(query)

\* no project index and no query
IOff ==
    /\ project_index = NotLoaded
    /\ searches = <<>>

\* knxmonitor after startup_event, with or without a loaded project
IInit ==
    /\ project_index \in {NotLoaded}
           \cup {load(texts) : texts \in [Range(IndexDevices) \cup Range(IndexGroupAddresses) -> IndexTexts]}
    /\ searches = <<>>

\* ------------------------------------------------ knxmonitor: search claims
\* the score of an item for the query tokens Q, counted token by token
ExpectedScore(item, Q) ==
    LET text == lower(Joined(item.name, item.description)) IN
      2 * Cardinality({t \in Q : Contains(text, t)})
    + Cardinality({t \in Q : ~Contains(text, t) /\ t \in item.tokens})
    + Cardinality({t \in Q : room_like_match(t) /\ t \in item.tokens})

\* identifiers lists, best first, exactly the items of the list `items` whose
\* score for Q is above 0; ties are in the order of `items`
RankedBy(identifiers, items, Q) ==
    /\ Len(identifiers) = Cardinality(Range(identifiers))
    /\ Range(identifiers) =
           {items[k].identifier : k \in {j \in 1..Len(items) : ExpectedScore(items[j], Q) > 0}}
    /\ \A a, b \in 1..Len(items) :
           /\ ExpectedScore(items[a], Q) > 0
           /\ ExpectedScore(items[b], Q) > 0
           /\ \/ ExpectedScore(items[a], Q) > ExpectedScore(items[b], Q)
              \/ ExpectedScore(items[a], Q) = ExpectedScore(items[b], Q) /\ a < b
           => \E i, j \in 1..Len(identifiers) :
                  /\ i < j
                  /\ identifiers[i] = items[a].identifier
                  /\ identifiers[j] = items[b].identifier

F200Light == <<"f", "2", "0", "0", " ", "l", "i", "g", "h", "t">>

\* for "f200 light": an item that has both tokens as substrings of its text
\* and f200 among its tokens is in the result, before every item of the
\* result that shares no token with the query
F200LightFirst(identifiers, items) ==
    \A a, b \in 1..Len(items) :
        /\ Contains(searchable_text(items[a]), <<"f", "2", "0", "0">>)
        /\ Contains(searchable_text(items[a]), <<"l", "i", "g", "h", "t">>)
        /\ <<"f", "2", "0", "0">> \in items[a].tokens
        /\ items[b].tokens \cap Range(tokenize(F200Light)) = {}
        => \E i \in 1..Len(identifiers) :
               /\ identifiers[i] = items[a].identifier
               /\ \A j \in 1..Len(identifiers) :
                      identifiers[j] = items[b].identifier => i < j

\* C25: search scoring. For every query with at least one token and every
\* indexed item, the item's score is the sum over the distinct query tokens
\* of 2 if the token is a substring of the lowercased "name description"
\* text, else 1 if the token is in the item's token set, plus 1 for each
\* room-like query token in the item's token set; items scoring 0 are not in
\* the result, the others are in descending order of score with ties in
\* discovery order; for "f200 light" an item matching by two substrings and
\* the f200 boost ranks above any item with no token overlap.
C25_SearchScoring ==
    \A n \in 1..Len(searches) :
        LET query == searches[n].query
            Q == Range(tokenize(query))
            room_like == {t \in Q : room_like_match(t)}
            response == searches[n].response
        IN  project_index.loaded /\ Q # {} =>
                /\ response.status = 200
                /\ \A items \in {project_index.devices, project_index.group_addresses} :
                       LET scored == score_items(items, Q, room_like) IN
                       /\ \A i \in 1..Len(items) :
                              score(items[i], Q, room_like) = ExpectedScore(items[i], Q)
                       /\ \A k \in 1..Len(scored) :
                              scored[k].score = ExpectedScore(scored[k].item, Q)
                /\ RankedBy(response.devices, project_index.devices, Q)
                /\ RankedBy(response.destinations, project_index.group_addresses, Q)
                /\ query = F200Light =>
                       /\ F200LightFirst(response.devices, project_index.devices)
                       /\ F200LightFirst(response.destinations, project_index.group_addresses)

\* "f200 light" was searched in an index whose second device is the light of
\* room F200 (two substrings and the boost) and whose first device shares no
\* token with the query but has both as substrings: the second device is
\* ranked first, and a group address without any match is left out
C25_Witness ==
    \E n \in 1..Len(searches) :
        /\ searches[n].query = F200Light
        /\ searches[n].response.devices = <<IndexDevices[2], IndexDevices[1]>>
        /\ project_index.devices[1].tokens \cap Range(tokenize(F200Light)) = {}
        /\ Len(searches[n].response.destinations) < Len(IndexGroupAddresses)

\* ------------------------------------------------ knx2mqtt: project and bus
None == [tag |-> "None"]

\* knx_project['group_addresses']: a 2-byte float address, a 1-byte enum
\* address, and an address whose DPT has no transcoder
GroupAddresses == {"1/1/1", "1/1/2", "1/1/3"}

\* a destination that is in no project entry
UnknownAddress == "9/9/9"

Destinations == GroupAddresses \cup {UnknownAddress}

\* GroupAddressInfo.__init__: transcoder = DPTBase.transcoder_by_dpt(main, sub)
GroupAddressInfo(addr) ==
    [address |-> addr,
     transcoder |-> CASE addr = "1/1/1" -> [tag |-> "DPT", value_type |-> "temperature"]
                      [] addr = "1/1/2" -> [tag |-> "DPT", value_type |-> "hvac_mode"]
                      [] OTHER -> None]

\* (mutant) an unknown destination falls back to the first project entry
group_addresses_get_default(destination) ==
    IF destination \in GroupAddresses
    THEN GroupAddressInfo(destination)
    ELSE GroupAddressInfo("1/1/1")

\* self.group_addresses.get(destination)
group_addresses_get(destination) ==
    IF destination \in GroupAddresses THEN GroupAddressInfo(destination) ELSE None

\* APCIService codes: the three group services and any other service
WriteResponse == {"GROUP_WRITE", "GROUP_RESPONSE"}

Codes == WriteResponse \cup {"GROUP_READ", "INDIVIDUAL_ADDRESS_READ"}

\* raw payload values: one byte, two bytes
Raws == {<<1>>, <<12, 34>>}

\* telegram.payload: None, or an APCI with its CODE and, for write and
\* response, its raw value
Payloads ==
    {None}
    \cup {[tag |-> "APCI", CODE |-> c, value |-> r] : c \in WriteResponse, r \in Raws}
    \cup {[tag |-> "APCI", CODE |-> c, value |-> None] : c \in Codes \ WriteResponse}

Telegrams == [destination : Destinations, payload : Payloads]

\* transcoder.from_knx(raw): the decoded value, or CouldNotParseTelegram when
\* the raw value has not the length of the DPT
from_knx(transcoder, raw) ==
    CASE transcoder.value_type = "temperature" /\ Len(raw) = 2 ->
             [ok |-> TRUE, value |-> [tag |-> "float", v |-> raw[1] * 256 + raw[2]]]
      [] transcoder.value_type = "hvac_mode" /\ Len(raw) = 1 ->
             [ok |-> TRUE,
              value |-> [tag |-> "enum_member", cls |-> "HVACOperationMode", v |-> raw[1]]]
      [] OTHER -> [ok |-> FALSE, value |-> None]

\* isinstance(value, enum.EnumType): true of an Enum class, not of a member
isinstance_EnumType(value) == value.tag = "enum_class"

\* value.member.name if isinstance(value, enum.EnumType) else value
flatten(value) ==
    IF isinstance_EnumType(value) THEN [tag |-> "str", v |-> value.member] ELSE value

\* MQTTClient.publish: json.dumps(value) raises TypeError for a value that is
\* not JSON serializable, which is then replaced by str(value)
json_value(value) ==
    IF value.tag \in {"None", "float", "str"} THEN value ELSE [tag |-> "str", v |-> value]

\* (mutant) a read telegram carries a default value
read_value_default == [tag |-> "float", v |-> 0]

\* __telegram_received_cb: value of a GROUP_READ telegram
read_value == None

\* __telegram_received_cb: the result of the dispatch on payload.CODE:
\* the value, and the record logged on the way (or None)
decode(ga, apci) ==
    IF apci.CODE \in WriteResponse
    THEN LET dec == from_knx(ga.transcoder, apci.value) IN
         IF dec.ok
         THEN [value |-> flatten(dec.value), log |-> None]
         ELSE [value |-> None, log |-> [level |-> "error", ev |-> "could_not_parse"]]
    ELSE IF apci.CODE = "GROUP_READ"
    THEN [value |-> read_value, log |-> None]
    ELSE [value |-> None, log |-> [level |-> "info", ev |-> "unhandled_payload"]]

\* (mutant) a read needs no decoding, so it is let through without transcoder
has_payload_and_transcoder_or_read(apci, transcoder) ==
    apci # None /\ (transcoder # None \/ apci.CODE = "GROUP_READ")

\* __telegram_received_cb: `if payload and transcoder`
has_payload_and_transcoder(apci, transcoder) == apci # None /\ transcoder # None

\* (mutant) every message kind is published
publishes_any_kind(knx_msg_type) == TRUE

\* publish_message: the kinds that go to the MQTT client
publishes_kind(knx_msg_type) == knx_msg_type \in WriteResponse \cup {"GROUP_READ"}

\* the message built by publish_message and MQTTClient.publish; the
\* timestamp is the number of the telegram
Message(tid, t, ga, value) ==
    [deviceid |-> "1.1.1",
     timestamp |-> tid,
     destination |-> t.destination,
     type |-> IF ga.transcoder = None THEN None ELSE ga.transcoder.value_type,
     value |-> json_value(value),
     knx_message_type |-> t.payload.CODE]

\* ------------------------------------------- knx2mqtt: room address filters
\* Strings are sequences of characters.
\* knx_project['devices'] and knx_project['group_addresses']: the keys, in
\* the order of the dict
DeviceKeys == <<"1.1.1">>

GroupAddressKeys == <<"1/1/1", "1/1/2", "1/1/3">>

ProjectKeys == Range(DeviceKeys) \cup Range(GroupAddressKeys)

\* name and description of a project entry: "F21" without description, "f2"
\* without description, "f2" described as "F21"
ItemTexts ==
    {[name |-> <<"F", "2", "1">>, description |-> <<>>],
     [name |-> <<"f", "2">>, description |-> <<>>],
     [name |-> <<"f", "2">>, description |-> <<"F", "2", "1">>]}

\* entries of rooms_to_monitor: "F2", "G" and the empty string (what the
\* command line makes of an empty MonitorRooms option)
RoomNames == {<<"F", "2">>, <<"G">>, <<>>}

\* [k for (k,v) in items if room in v['name'] or room in v['description']]
matching(keys, project, room) ==
    SelectSeq(keys, LAMBDA k : \/ Contains(project[k].name, room)
                               \/ Contains(project[k].description, room))

\* __setup_knx: the list `filters` after the rooms 1..n of the for loop (an
\* AddressFilter is written as the address it was made from)
RECURSIVE filters_after(_, _, _)
filters_after(rooms, project, n) ==
    IF n = 0 THEN <<>>
    ELSE filters_after(rooms, project, n - 1)
             \o matching(DeviceKeys, project, rooms[n])
             \o matching(GroupAddressKeys, project, rooms[n])

\* __setup_knx: self.address_filters, which starts as [] and is replaced by
\* `filters` only `if rooms_to_monitor` and `if filters`
setup_address_filters(rooms, project) ==
    LET filters == filters_after(rooms, project, Len(rooms))
    IN  IF rooms # <<>> /\ filters # <<>> THEN filters ELSE <<>>

\* xknx's TelegramQueue.Callback(callback, address_filters): a callback
\* matches every telegram only when its address_filters argument is None;
\* the argument is [tag |-> "None"] or [tag |-> "list", v |-> the list]
Callback(arg) ==
    [set |-> TRUE,
     match_all |-> arg.tag = "None",
     address_filters |-> IF arg.tag = "None" THEN <<>> ELSE arg.v]

\* no callback is registered yet
Unregistered == [set |-> FALSE, match_all |-> FALSE, address_filters |-> <<>>]

\* AddressFilter(pattern).match(destination), for a pattern that is an
\* address without wildcard or range
address_filter_match(pattern, destination) == pattern = destination

\* xknx's TelegramQueue.Callback.is_within_filter for an incoming telegram
is_within_filter(cb, destination) ==
    \/ cb.match_all
    \/ \E i \in 1..Len(cb.address_filters) :
           address_filter_match(cb.address_filters[i], destination)

\* the daemon's KNX side is not set up (or is of no interest)
FOff ==
    /\ rooms_to_monitor = <<>>
    /\ knx_project = <<>>
    /\ address_filters = <<>>
    /\ registered = Unregistered

\* KNXDaemon(...) is about to run __setup_knx for some project and some rooms
FInit ==
    /\ rooms_to_monitor \in SeqsUpTo(RoomNames, MaxRooms)
    /\ knx_project \in [ProjectKeys -> ItemTexts]
    /\ address_filters = <<>>
    /\ registered = Unregistered

\* ---------------------------------------------------- knx2mqtt: KNXDaemon
\* the daemon is constructed with or without an MQTT client
DInit ==
    /\ mqtt_client \in BOOLEAN
    /\ telegrams = <<>>
    /\ published = <<>>
    /\ printed = <<>>
    /\ dlog = {}
    /\ callbacks = <<>>
    /\ FOff

\* the daemon is not running
DOff ==
    /\ mqtt_client = FALSE
    /\ telegrams = <<>>
    /\ published = <<>>
    /\ printed = <<>>
    /\ dlog = {}
    /\ callbacks = <<>>
    /\ FOff

\* log records of telegram tid
Log(tid, recs) == {[level |-> r.level, ev |-> r.ev, tid |-> tid] : r \in recs \ {None}}

\* __telegram_received_cb(telegram), with publish_message and
\* MQTTClient.publish, whose client.publish does `outcome`. Nothing catches
\* what client.publish raises: it leaves the callback before the last line
\* (the debug record), and a failed result code is dropped.
TelegramReceived(t, outcome) ==
    /\ Len(telegrams) < MaxTelegrams
    /\ telegrams' = Append(telegrams, t)
    /\ LET tid == Len(telegrams) + 1
           ga == group_addresses_get(t.destination)
           called == /\ ga # None
                     /\ has_payload_and_transcoder(t.payload, ga.transcoder)
                     /\ mqtt_client
                     /\ publishes_kind(t.payload.CODE)
           raised == called /\ outcome = "raises"
           received == IF raised THEN None ELSE [level |-> "debug", ev |-> "received"]
       IN  /\ ~called => outcome = "success"
           /\ callbacks' = Append(callbacks,
                  [publish |-> IF called THEN outcome ELSE "not_called", raised |-> raised])
           /\ IF ga = None
              THEN /\ dlog' = dlog \cup Log(tid, {[level |-> "warning", ev |-> "unknown_destination"]})
                   /\ UNCHANGED <<published, printed>>
              ELSE IF has_payload_and_transcoder(t.payload, ga.transcoder)
              THEN LET d == decode(ga, t.payload)
                       msg == Message(tid, t, ga, d.value)
                   IN  /\ dlog' = dlog \cup Log(tid, {d.log, received})
                       /\ IF mqtt_client
                          THEN /\ published' = IF publishes_kind(t.payload.CODE)
                                                THEN Append(published, msg)
                                                ELSE published
                               /\ UNCHANGED printed
                          ELSE /\ printed' = Append(printed, msg)
                               /\ UNCHANGED published
              ELSE /\ dlog' = dlog \cup Log(tid, {[level |-> "error", ev |-> "no_transcoder"],
                                                 [level |-> "debug", ev |-> "received"]})
                   /\ UNCHANGED <<published, printed>>
    /\ UNCHANGED <<mqtt_client, rooms_to_monitor, knx_project, address_filters, registered>>
    /\ UNCHANGED <<mvars, xvars>>

DNext == \E t \in Telegrams, outcome \in PublishOutcomes : TelegramReceived(t, outcome)

\* __setup_knx with __setup_knx_daemon: the address filters are built and the
\* callback is registered with self.address_filters, which is always a list
SetupKnx ==
    /\ ~registered.set
    /\ address_filters' = setup_address_filters(rooms_to_monitor, knx_project)
    /\ registered' = Callback([tag |-> "list", v |-> address_filters'])
    /\ UNCHANGED <<mqtt_client, telegrams, published, printed, dlog, callbacks,
                   rooms_to_monitor, knx_project>>
    /\ UNCHANGED <<mvars, xvars>>

\* the telegrams of the bus in the runs of the address filter: a read to each
\* destination
BusTelegrams ==
    {[destination |-> d, payload |-> [tag |-> "APCI", CODE |-> "GROUP_READ", value |-> None]] :
        d \in Destinations}

\* xknx's telegram queue gets telegram t from the bus and calls the
\* registered callback when t is within its filter (a telegram that is not
\* changes nothing)
BusTelegram(t) ==
    /\ registered.set
    /\ is_within_filter(registered, t.destination)
    /\ TelegramReceived(t, "success")

\* the daemon from its construction on
FNext ==
    \/ SetupKnx
    \/ \E t \in BusTelegrams : BusTelegram(t)

\* ------------------------------------------- knxmonitor: read requests
\* entries of body.destinations: an empty string, an address
RequestEntries == {"", "1/1/1"}

\* ReadRequest.destinations
Bodies == SeqsUpTo(RequestEntries, MaxDests)

\* [dest for dest in body.destinations if dest]
non_empty(destinations) == SelectSeq(destinations, LAMBDA dest : dest # "")

\* MonitorMQTTClient.request_group_reads(group_addresses) when client.publish
\* does `outcome`: whether it raised, whether publish was called, its log record
request_group_reads(group_addresses, outcome) ==
    IF group_addresses = <<>>
    THEN [raised |-> FALSE, sent |-> FALSE, log |-> None]
    ELSE CASE outcome = "raises" ->
                  [raised |-> TRUE, sent |-> TRUE, log |-> None]
           [] outcome = "rc_failure" ->
                  [raised |-> FALSE, sent |-> TRUE,
                   log |-> [level |-> "error", ev |-> "read_request_failed"]]
           [] OTHER ->
                  [raised |-> FALSE, sent |-> TRUE,
                   log |-> [level |-> "info", ev |-> "read_request_published"]]

\* the responses of POST /api/read-group-addresses
HTTPException(status_code) == [status |-> status_code, body |-> "error", count |-> 0]

Queued(destinations) == [status |-> 200, body |-> "queued", count |-> Len(destinations)]

\* log records of the command channel: program, level, event, number of the
\* request or command, and the group address when the record is about one
CmdLog(side, n, recs) ==
    {[side |-> side, level |-> r.level, ev |-> r.ev, n |-> n,
      ga |-> IF "ga" \in DOMAIN r THEN r.ga ELSE ""] : r \in recs \ {None}}

\* (mutant) the handler does not test runtime.mqtt_client: the call on None
\* raises AttributeError, which `except Exception` turns into a 500
ReadGroupAddressesRequestUnchecked(body, outcome) ==
    /\ Len(requests) < MaxRequests
    /\ LET n == Len(requests) + 1
           destinations == non_empty(body)
           r == IF monitor_client = "none"
                THEN [raised |-> TRUE, sent |-> FALSE, log |-> None]
                ELSE request_group_reads(destinations, outcome)
           called == destinations # <<>>
           response ==
               IF destinations = <<>> THEN HTTPException(400)
               ELSE IF r.raised THEN HTTPException(500)
               ELSE Queued(destinations)
       IN  /\ requests' = Append(requests,
                  [destinations |-> body,
                   publish |-> IF called /\ r.sent THEN outcome ELSE "not_called",
                   response |-> response])
           /\ cmd_published' = IF called /\ r.sent
                               THEN Append(cmd_published,
                                           [action |-> "read", destinations |-> destinations])
                               ELSE cmd_published
           /\ cmdlog' = cmdlog \cup
                  (IF ~called THEN {}
                   ELSE CmdLog("knxmonitor", n,
                               {r.log,
                                IF r.raised
                                THEN [level |-> "error", ev |-> "read_request_raised"]
                                ELSE None}))
    /\ UNCHANGED <<commands, has_loop, coros, bus_reads>>
    /\ UNCHANGED <<mvars, dvars, lvars, nvars, ivars>>

\* read_group_addresses(body), with request_group_reads: there is no await
\* in the handler
ReadGroupAddressesRequest(body, outcome) ==
    /\ Len(requests) < MaxRequests
    /\ LET n == Len(requests) + 1
           destinations == non_empty(body)
           r == request_group_reads(destinations, outcome)
           called == monitor_client # "none" /\ destinations # <<>>
           response ==
               IF monitor_client = "none" THEN HTTPException(503)
               ELSE IF destinations = <<>> THEN HTTPException(400)
               ELSE IF r.raised THEN HTTPException(500)
               ELSE Queued(destinations)
       IN  /\ requests' = Append(requests,
                  [destinations |-> body,
                   publish |-> IF called /\ r.sent THEN outcome ELSE "not_called",
                   response |-> response])
           /\ cmd_published' = IF called /\ r.sent
                               THEN Append(cmd_published,
                                           [action |-> "read", destinations |-> destinations])
                               ELSE cmd_published
           /\ cmdlog' = cmdlog \cup
                  (IF ~called THEN {}
                   ELSE CmdLog("knxmonitor", n,
                               {r.log,
                                IF r.raised
                                THEN [level |-> "error", ev |-> "read_request_raised"]
                                ELSE None}))
    /\ UNCHANGED <<commands, has_loop, coros, bus_reads>>
    /\ UNCHANGED <<mvars, dvars, lvars, nvars, ivars>>

RNext == \E body \in Bodies, outcome \in PublishOutcomes :
             ReadGroupAddressesRequest(body, outcome)

\* ------------------------------------------------ knx2mqtt: command intake
\* entries of a destinations list: an address, a string that is no address
BusAddresses == {"1/1/1", "bad"}

\* JSON values of the "destinations" key: absent, the string "1/1/1" (v holds
\* its characters), a list (v holds its entries)
Missing == [tag |-> "missing", v |-> <<>>]

DestinationValues ==
    {Missing, [tag |-> "str", v |-> <<"1", "/", "1", "/", "1">>]}
    \cup {[tag |-> "list", v |-> l] : l \in SeqsUpTo(BusAddresses, MaxDests)}

\* the JSON object {"action": action, "destinations": destinations};
\* action "" stands for an object without "action"
Dict(action, destinations) ==
    [tag |-> "dict", action |-> action, destinations |-> destinations]

\* what json.loads makes of a message body: nothing (not JSON), a JSON array,
\* an object with another action or none, a read with each kind of destinations
Parsed ==
    {[tag |-> "not_json", action |-> "", destinations |-> Missing],
     [tag |-> "array", action |-> "", destinations |-> Missing],
     Dict("write", [tag |-> "list", v |-> <<"1/1/1">>]),
     Dict("", [tag |-> "list", v |-> <<"1/1/1">>])}
    \cup {Dict("read", d) : d \in DestinationValues}

\* the messages the broker delivers to knx2mqtt: on T/cmd, or on another topic
CommandMessages ==
    {[topic |-> "cmd", body |-> b] : b \in Parsed}
    \cup {[topic |-> "other", body |-> Dict("read", [tag |-> "list", v |-> <<"1/1/1">>])]}

\* payload.get("action") if isinstance(payload, dict) else None
action_of(body) == IF body.tag = "dict" /\ body.action # "" THEN body.action ELSE "None"

\* payload.get("destinations") or []
destinations_or_empty(body) ==
    IF body.destinations = Missing THEN [tag |-> "list", v |-> <<>>] ELSE body.destinations

\* (mutant) any non-empty value is taken for a list
is_nonempty_value(group_addresses) ==
    group_addresses.tag = "str" \/ group_addresses.v # <<>>

\* not (not isinstance(group_addresses, list) or not group_addresses)
is_nonempty_list(group_addresses) ==
    group_addresses.tag = "list" /\ group_addresses.v # <<>>

\* `for ga in group_addresses`: the entries of a list, the characters of a string
iterate(group_addresses) == group_addresses.v

\* group_value_read(self.xknx_daemon, ga) raises when ga does not parse as a
\* group address
group_value_read_raises(ga) == ga \notin {"1/1/1", "1/1/2"}

\* (mutant) __handle_command keeps the coroutine of a read command that
\* arrives before the loop is set, for the loop to run once it is
OnCommandMessageDeferring(msg) ==
    /\ mqtt_client
    /\ Len(commands) < MaxCommands
    /\ commands' = Append(commands, msg)
    /\ LET n == Len(commands) + 1
           received == [level |-> "info", ev |-> "received"]
           out(recs, coro) ==
               /\ cmdlog' = cmdlog \cup CmdLog("knx2mqtt", n, recs \cup {received})
               /\ coros' = IF coro = None THEN coros ELSE Append(coros, coro)
       IN  IF msg.topic # "cmd" THEN out({}, None)
           ELSE IF msg.body.tag = "not_json"
           THEN out({[level |-> "warning", ev |-> "parse_failed"]}, None)
           ELSE IF action_of(msg.body) # "read"
           THEN out({[level |-> "warning", ev |-> "unknown_action"]}, None)
           ELSE IF ~is_nonempty_list(destinations_or_empty(msg.body))
           THEN out({[level |-> "warning", ev |-> "missing_destinations"]}, None)
           ELSE IF ~has_loop
           THEN out({[level |-> "warning", ev |-> "loop_not_ready"]},
                    [cmd |-> n, group_addresses |-> destinations_or_empty(msg.body)])
           ELSE out({}, [cmd |-> n, group_addresses |-> destinations_or_empty(msg.body)])
    /\ UNCHANGED <<requests, cmd_published, has_loop, bus_reads>>
    /\ UNCHANGED <<mvars, dvars, lvars, nvars, ivars>>

\* MQTTClient.__on_message(msg) with KNXDaemon.__handle_command, on the
\* broker client's network thread
OnCommandMessage(msg) ==
    /\ mqtt_client
    /\ Len(commands) < MaxCommands
    /\ commands' = Append(commands, msg)
    /\ LET n == Len(commands) + 1
           received == [level |-> "info", ev |-> "received"]
           out(recs, coro) ==
               /\ cmdlog' = cmdlog \cup CmdLog("knx2mqtt", n, recs \cup {received})
               /\ coros' = IF coro = None THEN coros ELSE Append(coros, coro)
       IN  IF msg.topic # "cmd" THEN out({}, None)
           ELSE IF msg.body.tag = "not_json"
           THEN out({[level |-> "warning", ev |-> "parse_failed"]}, None)
           ELSE IF action_of(msg.body) # "read"
           THEN out({[level |-> "warning", ev |-> "unknown_action"]}, None)
           ELSE IF ~is_nonempty_list(destinations_or_empty(msg.body))
           THEN out({[level |-> "warning", ev |-> "missing_destinations"]}, None)
           ELSE IF ~has_loop
           THEN out({[level |-> "warning", ev |-> "loop_not_ready"]}, None)
           ELSE out({}, [cmd |-> n, group_addresses |-> destinations_or_empty(msg.body)])
    /\ UNCHANGED <<requests, cmd_published, has_loop, bus_reads>>
    /\ UNCHANGED <<mvars, dvars, lvars, nvars, ivars>>

\* __run_async: self.loop = asyncio.get_running_loop()
RunAsync ==
    /\ ~has_loop
    /\ has_loop' = TRUE
    /\ UNCHANGED <<requests, cmd_published, commands, coros, bus_reads, cmdlog>>
    /\ UNCHANGED <<mvars, dvars, lvars, nvars, ivars>>

\* (mutant) the try encloses the for loop: the first read that raises ends it
reads_until_failure(cmd, gas) ==
    LET bad == {i \in 1..Len(gas) : group_value_read_raises(gas[i])}
        last == IF bad = {} THEN Len(gas) ELSE CHOOSE i \in bad : \A j \in bad : i <= j
    IN  [i \in 1..last |-> [cmd |-> cmd, ga |-> gas[i], ok |-> ~group_value_read_raises(gas[i])]]

\* read_group_addresses: the group_value_read calls of the for loop, in order
reads(cmd, gas) ==
    [i \in 1..Len(gas) |-> [cmd |-> cmd, ga |-> gas[i], ok |-> ~group_value_read_raises(gas[i])]]

\* KNXDaemon.read_group_addresses(group_addresses), run by the daemon's event
\* loop for the oldest submitted coroutine (there is no await in it)
ReadGroupAddressesRun ==
    /\ coros # <<>>
    /\ LET co == Head(coros)
           rs == reads(co.cmd, iterate(co.group_addresses))
       IN  /\ bus_reads' = bus_reads \o rs
           /\ cmdlog' = cmdlog \cup
                  CmdLog("knx2mqtt", co.cmd,
                         {[level |-> IF rs[i].ok THEN "info" ELSE "error",
                           ev |-> IF rs[i].ok THEN "read_sent" ELSE "read_failed",
                           ga |-> rs[i].ga] : i \in 1..Len(rs)})
    /\ coros' = Tail(coros)
    /\ UNCHANGED <<requests, cmd_published, commands, has_loop>>
    /\ UNCHANGED <<mvars, dvars, lvars, nvars, ivars>>

CNext ==
    \/ \E msg \in CommandMessages : OnCommandMessage(msg)
    \/ RunAsync
    \/ ReadGroupAddressesRun

\* ------------------------------------------------- the broker connections
\* the two programs, each with one paho client
Sides == {"knx2mqtt", "knxmonitor"}

\* the topic a program subscribes to
Topic(side) == IF side = "knx2mqtt" THEN "T/cmd" ELSE "T/data"

\* A paho client after connect() and loop_start(): CONNECT is sent and the
\* network thread runs. state is "connecting" (CONNACK awaited), "connected",
\* "lost" (no connection; the network thread will reconnect) or "closed"
\* (disconnect() was called); loop tells whether the network thread runs;
\* subscribed is the topic subscribe() was called for on this connection;
\* is_running is MQTTClient.is_running (knx2mqtt only).
NInit ==
    /\ conn = [side \in Sides |->
                 [state |-> "connecting", attempts |-> 1, loop |-> TRUE,
                  subscribed |-> "", is_running |-> side = "knx2mqtt"]]
    /\ connlog = <<>>

ConnLog(side, level, ev) == [side |-> side, level |-> level, ev |-> ev]

\* MQTTClient.disconnect / MonitorMQTTClient.stop: loop_stop(), disconnect()
disconnected(c) == [c EXCEPT !.loop = FALSE, !.state = "closed", !.subscribed = ""]

\* __on_connect / _on_connect with reason_code.is_failure
on_connect_failure(side, c) ==
    IF side = "knx2mqtt"
    THEN [client |-> disconnected(c),
          log |-> <<ConnLog(side, "error", "connect_failed"),
                    ConnLog(side, "info", "disconnecting")>>]
    ELSE [client |-> [c EXCEPT !.state = "lost"],
          log |-> <<ConnLog(side, "error", "connect_failed")>>]

\* (mutant) the subscription is made on the first connect only
on_connect_success_first_only(side, c) ==
    [client |-> [c EXCEPT !.state = "connected",
                          !.subscribed = IF c.attempts = 1 THEN Topic(side) ELSE "",
                          !.is_running = side = "knx2mqtt"],
     log |-> <<ConnLog(side, "info", "connected")>>]

\* __on_connect / _on_connect without failure: client.subscribe(topic)
on_connect_success(side, c) ==
    [client |-> [c EXCEPT !.state = "connected",
                          !.subscribed = Topic(side),
                          !.is_running = side = "knx2mqtt"],
     log |-> <<ConnLog(side, "info", "connected")>>]

\* the network thread gets CONNACK and calls on_connect
OnConnect(side, is_failure) ==
    /\ conn[side].loop
    /\ conn[side].state = "connecting"
    /\ LET r == IF is_failure
                THEN on_connect_failure(side, conn[side])
                ELSE on_connect_success(side, conn[side])
       IN  /\ conn' = [conn EXCEPT ![side] = r.client]
           /\ connlog' = connlog \o r.log
    /\ UNCHANGED <<mvars, dvars, cvars, lvars, ivars>>

\* the connection ends and the network thread calls on_disconnect; the
\* subscriptions of the connection end with it
OnDisconnect(side, is_failure) ==
    /\ conn[side].loop
    /\ conn[side].state = "connected"
    /\ conn' = [conn EXCEPT ![side] =
                   [@ EXCEPT !.state = "lost", !.subscribed = "", !.is_running = FALSE]]
    /\ connlog' = Append(connlog,
           IF side = "knx2mqtt" THEN ConnLog(side, "info", "disconnected")
           ELSE IF is_failure THEN ConnLog(side, "warning", "unexpected_disconnect")
           ELSE ConnLog(side, "info", "disconnected"))
    /\ UNCHANGED <<mvars, dvars, cvars, lvars, ivars>>

\* the network thread (paho's loop_forever) connects again
Reconnect(side) ==
    /\ conn[side].loop
    /\ conn[side].state = "lost"
    /\ conn[side].attempts < MaxConnects
    /\ conn' = [conn EXCEPT ![side] =
                   [@ EXCEPT !.state = "connecting", !.attempts = @ + 1]]
    /\ UNCHANGED connlog
    /\ UNCHANGED <<mvars, dvars, cvars, lvars, ivars>>

NNext ==
    \/ \E side \in Sides, is_failure \in BOOLEAN : OnConnect(side, is_failure)
    \/ \E side \in Sides, is_failure \in BOOLEAN : OnDisconnect(side, is_failure)
    \/ \E side \in Sides : Reconnect(side)

\* ------------------------------------------------------ specifications
\* no request and no command yet; __run_async has not started
CInit ==
    /\ requests = <<>>
    /\ cmd_published = <<>>
    /\ commands = <<>>
    /\ has_loop = FALSE
    /\ coros = <<>>
    /\ bus_reads = <<>>
    /\ cmdlog = {}

\* knxmonitor after startup_event: the dispatch task and the MQTT client run
LInit ==
    /\ monitor_client = "started"
    /\ dispatch_task = "running"
    /\ shutdown = "idle"
    /\ at_shutdown = [dispatched |-> -1, live |-> -1]

\* knxmonitor's telemetry pipeline and its viewers
MonitorInit == MInit /\ DOff /\ CInit /\ LInit /\ NInit /\ IOff

MonitorSpec == MonitorInit /\ [][MNext]_vars

\* knxmonitor's schema validation gate
SchemaSpec == MonitorInit /\ [][SNext]_vars

\* knxmonitor's shutdown
ShutdownSpec == MonitorInit /\ [][LNext]_vars

\* knxmonitor's fan-out to the viewers
FanoutSpec == MonitorInit /\ [][VNext]_vars

\* Both programs, one of them in each behaviour: knxmonitor with every
\* websocket connected and the history buffer still empty, or knx2mqtt with
\* its MQTT client while knxmonitor has not started. Each has its event loop
\* and the network thread of its broker client.
HandoffInit ==
    /\ nextId = 1 /\ handed = <<>> /\ scheduled = <<>> /\ queue = <<>>
    /\ enqueued = <<>> /\ buffer = <<>> /\ dispatched = <<>> /\ mlog = {}
    /\ frames = [v \in Viewers |-> <<>>]
    /\ pc = "get" /\ payload = NoMessage /\ conns = {} /\ todo = {} /\ stale = {}
    /\ telegrams = <<>> /\ published = <<>> /\ printed = <<>> /\ dlog = {}
    /\ callbacks = <<>>
    /\ FOff
    /\ CInit /\ NInit /\ IOff
    /\ shutdown = "idle"
    /\ at_shutdown = [dispatched |-> -1, live |-> -1]
    /\ \/ /\ monitor_client = "started"
          /\ dispatch_task = "running"
          /\ active_connections = Viewers
          /\ ws = [v \in Viewers |-> "open"]
          /\ joined = [v \in Viewers |-> 0]
          /\ mqtt_client = FALSE
       \/ /\ monitor_client = "none"
          /\ dispatch_task = "none"
          /\ active_connections = {}
          /\ ws = [v \in Viewers |-> "new"]
          /\ joined = [v \in Viewers |-> -1]
          /\ mqtt_client = TRUE

\* the network-thread callbacks and the event-loop steps of both programs
HNext ==
    \/ \E shape \in Shapes : OnMessage(shape)
    \/ QueueMessage
    \/ DispatchGet
    \/ BroadcastSendOk
    \/ BroadcastSendRaises
    \/ \E v \in Viewers : WsDisconnect(v)
    \/ \E msg \in CommandMessages : OnCommandMessage(msg)
    \/ RunAsync
    \/ ReadGroupAddressesRun

HandoffSpec == HandoffInit /\ [][HNext]_vars

\* knx2mqtt's bus listener
DaemonInit == MInit /\ DInit /\ CInit /\ LInit /\ NInit /\ IOff

DaemonSpec == DaemonInit /\ [][DNext]_vars

\* knx2mqtt's startup with rooms to monitor, and its bus listener after it
FilterInit ==
    /\ MInit /\ CInit /\ LInit /\ NInit /\ IOff
    /\ mqtt_client = TRUE
    /\ telegrams = <<>>
    /\ published = <<>>
    /\ printed = <<>>
    /\ dlog = {}
    /\ callbacks = <<>>
    /\ FInit

FilterSpec == FilterInit /\ [][FNext]_vars

\* the websockets were opened before the first message arrived
ProgressInit ==
    /\ nextId = 1 /\ handed = <<>> /\ scheduled = <<>> /\ queue = <<>>
    /\ enqueued = <<>> /\ buffer = <<>> /\ dispatched = <<>> /\ mlog = {}
    /\ active_connections = Viewers
    /\ ws = [v \in Viewers |-> "open"]
    /\ frames = [v \in Viewers |-> <<>>]
    /\ joined = [v \in Viewers |-> 0]
    /\ pc = "get" /\ payload = NoMessage /\ conns = {} /\ todo = {} /\ stale = {}
    /\ DOff /\ CInit /\ LInit /\ NInit /\ IOff

\* the pipeline and its websockets when the event loop runs the dispatch task
\* whenever its queue.get() can return, and every send_json awaited by
\* broadcast_json returns or raises in the end
ProgressSpec ==
    /\ ProgressInit
    /\ [][PNext]_vars
    /\ WF_vars(DispatchGet)
    /\ WF_vars(BroadcastSendOk \/ BroadcastSendRaises)

\* knxmonitor's natural-language filter
SearchInit == MInit /\ DOff /\ CInit /\ LInit /\ NInit /\ IInit

SearchSpec == SearchInit /\ [][INext]_vars

\* knxmonitor's read requests, with the MQTT client set or not
RequestInit ==
    /\ MInit /\ DOff /\ CInit /\ NInit /\ IOff
    /\ monitor_client \in {"none", "started"}
    /\ dispatch_task = "running"
    /\ shutdown = "idle"
    /\ at_shutdown = [dispatched |-> -1, live |-> -1]

RequestSpec == RequestInit /\ [][RNext]_vars

\* both programs' broker connections
ConnectionInit == MInit /\ DInit /\ mqtt_client /\ CInit /\ LInit /\ NInit /\ IOff

ConnectionSpec == ConnectionInit /\ [][NNext]_vars

\* knx2mqtt's command intake
CommandInit == MInit /\ DInit /\ mqtt_client /\ CInit /\ LInit /\ NInit /\ IOff

CommandSpec == CommandInit /\ [][CNext]_vars

\* ------------------------------------------------------- knxmonitor: claims
\* messages dispatch_loop has taken from the queue so far
Dequeued == Len(dispatched) + Cardinality({e \in mlog : e.ev = "schema"})

\* the messages whose _queue_message callback has run, in the order handed over
Delivered == SubSeq(handed, 1, Len(handed) - Len(scheduled))

\* the messages of the live frames sent on websocket v, in order
LiveOf(v) ==
    LET live == SelectSeq(frames[v], LAMBDA f : f.type = "message")
    IN  [i \in 1..Len(live) |-> live[i].message]

\* the position of the message numbered id in the sequence s of messages
PosIn(s, id) == CHOOSE i \in 1..Len(s) : s[i].id = id

\* C1 (queue backpressure): _queue_message is never blocked by a full queue,
\* and as long as dispatch_loop has dequeued nothing, the queue holds exactly
\* the first QueueSize delivered messages in arrival order and every later
\* one was dropped with a "queue full" warning.
C1_QueueBackpressure ==
    /\ (scheduled # <<>> => ENABLED QueueMessage)
    /\ Dequeued = 0 =>
         /\ queue = FirstN(Delivered, QueueSize)
         /\ {e.id : e \in {x \in mlog : x.ev = "queue_full"}}
              = {Delivered[i].id : i \in (QueueSize + 1)..Len(Delivered)}

\* C1 witness: QueueSize + 1 messages were delivered with no dequeue, the
\* queue is full and the last one was dropped.
C1_Witness ==
    /\ Dequeued = 0
    /\ Len(Delivered) = QueueSize + 1
    /\ Len(queue) = QueueSize
    /\ [ev |-> "queue_full", id |-> Delivered[QueueSize + 1].id] \in mlog

\* C2 (history buffer): runtime.buffer is exactly the last BufferSize payloads
\* that dispatch_loop appended, in that order, so each append at capacity
\* evicted the oldest entry.
C2_HistoryBuffer == buffer = LastN(dispatched, BufferSize)

\* C2 witness: more payloads than the buffer holds have been dispatched.
C2_Witness == Len(dispatched) > BufferSize /\ Len(buffer) = BufferSize

\* C3 (snapshot then live): a websocket that connect() added after M >= 1
\* payloads were dispatched has, as the first frame sent to it, one snapshot
\* of the last min(M, BufferSize) payloads in order; no other frame is a
\* snapshot, and it is never left open with no frame sent.
C3_SnapshotThenLive ==
    \A v \in Viewers :
        joined[v] >= 1 =>
            /\ ws[v] = "open" => frames[v] # <<>>
            /\ frames[v] # <<>> =>
                 /\ frames[v][1] =
                      SnapshotFrame(LastN(SubSeq(dispatched, 1, joined[v]), BufferSize))
                 /\ Len(frames[v][1].messages) = Min(joined[v], BufferSize)
            /\ \A i \in 2..Len(frames[v]) : frames[v][i].type = "message"

\* C3 witness: a websocket that joined after a dispatched payload got its
\* snapshot and then a live frame.
C3_Witness ==
    \E v \in Viewers :
        /\ joined[v] >= 1
        /\ Len(frames[v]) >= 2
        /\ frames[v][1].type = "snapshot"
        /\ frames[v][2].type = "message"

\* the entries of sequence s that also occur in sequence t, in the order of s
Common(s, t) == LET r == Range(t) IN SelectSeq(s, LAMBDA x : x \in r)

\* C4 (broadcast order): on every websocket the live frames carry enqueued
\* messages in the order put_nowait accepted them, and the messages that two
\* websockets both got were sent to both in the same relative order.
C4_BroadcastOrder ==
    /\ \A v \in Viewers :
          frames[v] # <<>> =>
              LET live == LiveOf(v) IN
              /\ \A i \in 1..Len(live) : \E k \in 1..Len(enqueued) : enqueued[k].id = live[i].id
              /\ \A i \in 1..(Len(live) - 1) :
                    PosIn(enqueued, live[i].id) < PosIn(enqueued, live[i + 1].id)
    /\ \A v, w \in Viewers :
          (v < w /\ frames[v] # <<>> /\ frames[w] # <<>>) =>
              LET a == LiveOf(v)
                  b == LiveOf(w)
              IN  Common(a, b) = Common(b, a)

\* C4 witness: two websockets were each sent the same two live messages.
C4_Witness ==
    \E v, w \in Viewers :
        /\ v # w
        /\ Len(LiveOf(v)) >= 2
        /\ LiveOf(v) = LiveOf(w)

\* C5 (viewer send failure): in a broadcast every connection listed at its
\* start and already handled either raised (it is in stale) or was sent the
\* payload as its latest frame; once the broadcast is over the stale
\* connections are out of active_connections and dispatch_loop is back at
\* queue.get().
C5_ViewerSendFailure ==
    /\ pc \in {"get", "broadcast"}
    /\ \A v \in conns \ (todo \cup stale) :
          /\ frames[v] # <<>>
          /\ frames[v][Len(frames[v])] = LiveFrame(payload)
    /\ pc = "get" => /\ todo = {}
                     /\ stale \cap active_connections = {}

\* C5 witness: a broadcast to two or more connections is over in which one
\* send raised and another connection was sent the payload.
C5_Witness ==
    /\ pc = "get"
    /\ stale # {}
    /\ \E v \in conns \ stale : frames[v][Len(frames[v])] = LiveFrame(payload)

\* the messages dispatch_loop has taken from the queue, in order
Taken == FirstN(enqueued, Len(enqueued) - Len(queue))

\* the message numbered id is in a frame sent on websocket v
InFrames(v, id) ==
    \E i \in 1..Len(frames[v]) :
        IF frames[v][i].type = "message"
        THEN frames[v][i].message.id = id
        ELSE \E k \in 1..Len(frames[v][i].messages) : frames[v][i].messages[k].id = id

\* a step of a callback that the broker client runs on its network thread
OnNetworkThread ==
    \/ \E shape \in Shapes : OnMessage(shape)
    \/ \E msg \in CommandMessages : OnCommandMessage(msg)

\* C17 (single-context mutation): a callback on a network thread leaves the
\* queue, the history buffer, the viewer set and the bus alone and at most
\* appends one callback or coroutine to what its event loop has to run; the
\* queue, the buffer and the viewer set change only in steps of knxmonitor's
\* event loop, and bus reads are made only in a step of knx2mqtt's.
C17_SingleContextMutation ==
    [][/\ OnNetworkThread =>
             /\ UNCHANGED <<queue, enqueued, buffer, dispatched, active_connections,
                            frames, bus_reads>>
             /\ \/ scheduled' = scheduled
                \/ /\ Len(scheduled') = Len(scheduled) + 1
                   /\ SubSeq(scheduled', 1, Len(scheduled)) = scheduled
             /\ \/ coros' = coros
                \/ /\ Len(coros') = Len(coros) + 1
                   /\ SubSeq(coros', 1, Len(coros)) = coros
       /\ queue' # queue => (QueueMessage \/ DispatchGet)
       /\ buffer' # buffer => DispatchGet
       /\ active_connections' # active_connections =>
             (BroadcastSendOk \/ BroadcastSendRaises \/ \E v \in Viewers : WsDisconnect(v))
       /\ bus_reads' # bus_reads => ReadGroupAddressesRun
      ]_vars

\* C17 witness: in knxmonitor a message handed over by the network thread
\* was queued and dispatched by the event loop, which also removed a
\* websocket whose send raised, while another callback waits to be run.
C17_Witness ==
    /\ scheduled # <<>>
    /\ dispatched # <<>>
    /\ active_connections # Viewers
    /\ active_connections # {}

\* C18 (shutdown ordering): the MQTT client is stopped only when the
\* cancelled dispatch task is done; from dispatch_task.cancel() on nothing is
\* appended to the history buffer, and once shutdown_event has ended no live
\* frame is sent to a viewer.
C18_ShutdownOrdering ==
    /\ monitor_client = "stopped" => dispatch_task = "done"
    /\ shutdown = "done" => monitor_client = "stopped"
    /\ shutdown # "idle" =>
          /\ dispatch_task # "running"
          /\ Len(dispatched) = at_shutdown.dispatched
          /\ buffer = LastN(dispatched, BufferSize)
    /\ shutdown = "done" => LiveCount(frames, Viewers) = at_shutdown.live

\* C18 witness: shutdown has ended after the task was cancelled in the middle
\* of a broadcast, with a message left in the queue; a callback queued on
\* the loop before the client was stopped has then still run.
C18_Witness ==
    /\ shutdown = "done"
    /\ pc = "broadcast"
    /\ todo # {}
    /\ queue # <<>>
    /\ Len(enqueued) > Len(dispatched) + 1

\* the broker delivered message number id and _on_message logged it as malformed
Malformed(id) == [ev |-> "malformed", id |-> id] \in mlog

\* the messages of the sequence s of messages, by number
Ids(s) == {s[i].id : i \in 1..Len(s)}

C15_SchemaValidationGate ==
    /\ \A i \in 1..Len(Taken) :
          LET m == Taken[i] IN
          /\ m.shape \in {"missing_field", "wrong_type"} =>
                /\ [ev |-> "schema", id |-> m.id] \in mlog
                /\ \A k \in 1..Len(dispatched) : dispatched[k].id # m.id
                /\ \A k \in 1..Len(buffer) : buffer[k].id # m.id
                /\ \A v \in Viewers : ~InFrames(v, m.id)
          /\ m.shape = "extra_field" =>
                /\ [id |-> m.id, shape |-> "canonical_extra"] \in Range(dispatched)
                /\ [ev |-> "schema", id |-> m.id] \notin mlog
    /\ (pc = "get" /\ queue # <<>>) => ENABLED DispatchGet

\* C15 witness: a wrongly typed message and one that lacks a field were
\* dequeued, and then a message with extra fields was sent to a viewer.
C15_Witness ==
    /\ Len(Taken) = 3
    /\ Taken[1].shape = "wrong_type"
    /\ Taken[2].shape = "missing_field"
    /\ Taken[3].shape = "extra_field"
    /\ \E v \in Viewers : InFrames(v, Taken[3].id)

\* the events knxmonitor logged for the delivered message numbered id
Drops(id) == {e.ev : e \in {x \in mlog : x.id = id}}

\* C21 (dropped messages are silent to viewers): every frame sent on a
\* websocket is either a snapshot, sent as its first frame, or a live frame of
\* a dispatched payload; every dispatched payload comes from a delivered
\* message that is a valid JSON object; a websocket got at most one live frame
\* for each payload dispatched since it joined; and a message dropped as
\* malformed, for a full queue or by the schema is in no frame of any viewer.
C21_DroppedSilent ==
    /\ \A v \in Viewers :
          /\ \A i \in 1..Len(frames[v]) :
                LET f == frames[v][i] IN
                IF f.type = "snapshot"
                THEN /\ i = 1
                     /\ \A k \in 1..Len(f.messages) : f.messages[k] \in Range(dispatched)
                ELSE /\ f.type = "message"
                     /\ f.message \in Range(dispatched)
          /\ joined[v] >= 0 => Len(LiveOf(v)) <= Len(dispatched) - joined[v]
          /\ joined[v] < 0 => frames[v] = <<>>
          /\ \A e \in mlog : ~InFrames(v, e.id)
    /\ \A k \in 1..Len(dispatched) :
          /\ Drops(dispatched[k].id) = {}
          /\ \E i \in 1..Len(handed) :
                /\ handed[i].id = dispatched[k].id
                /\ handed[i].shape \notin {"not_json", "missing_field", "wrong_type"}

\* C21 witness: a viewer was sent a live frame in a run in which one message
\* was dropped for a full queue and another by the schema.
C21_Witness ==
    /\ \E v \in Viewers : LiveOf(v) # <<>>
    /\ \E id \in 1..(nextId - 1) : Drops(id) = {"queue_full"}
    /\ \E id \in 1..(nextId - 1) : Drops(id) = {"schema"}

\* the ids of the messages of the snapshot frames sent on websocket v
SnapshotIds(v) ==
    UNION {Ids(frames[v][i].messages) :
              i \in {j \in 1..Len(frames[v]) : frames[v][j].type = "snapshot"}}

\* how many live frames of the message numbered id were sent on websocket v
LiveFramesOf(v, id) == Len(SelectSeq(LiveOf(v), LAMBDA m : m.id = id))

\* broadcast_json of dispatched payload number k has got past websocket v
PastViewer(v, k) == k < Len(dispatched) \/ pc = "get" \/ v \notin todo

\* C26 (no gap and no duplicate between snapshot and live): for a websocket
\* that was added at any point of the dispatch loop and no send to which has
\* failed, no message is both in its snapshot and in a live frame sent to it;
\* a payload dispatched before it was added is in no live frame; and every
\* payload appended to the buffer after its snapshot was taken is sent to it
\* as a live frame exactly once, as soon as the broadcast has got to it.
C26_NoGapNoDuplicate ==
    \A v \in Viewers :
        ws[v] = "open" /\ v \in active_connections /\ v \notin stale =>
            /\ \A id \in SnapshotIds(v) : LiveFramesOf(v, id) = 0
            /\ \A k \in 1..Len(dispatched) :
                   LiveFramesOf(v, dispatched[k].id) =
                       IF k > joined[v] /\ PastViewer(v, k) THEN 1 ELSE 0
            /\ \A k \in (joined[v] + 1)..Len(dispatched) :
                   dispatched[k].id \notin SnapshotIds(v)

\* C26 witness: while the broadcast of a payload to an earlier websocket is
\* in progress, a websocket that was added during it holds the payload in
\* its snapshot, and the earlier one has a live frame of a payload
\* dispatched after it joined.
C26_Witness ==
    /\ pc = "broadcast"
    /\ todo # {}
    /\ \E v \in Viewers \ conns :
          /\ ws[v] = "open"
          /\ joined[v] = Len(dispatched)
          /\ payload.id \in SnapshotIds(v)
    /\ \E u \in todo :
          /\ ws[u] = "open"
          /\ \E k \in (joined[u] + 1)..Len(dispatched) :
                 LiveFramesOf(u, dispatched[k].id) = 1

Broadcast(id) == id \in Ids(dispatched) /\ ~(pc = "broadcast" /\ payload.id = id)

\* C28 (dispatch progress): with no shutdown and every send to a websocket
\* completing or raising in the end, the dispatch task keeps running
\* whatever the messages hold, and every message accepted into the queue is
\* eventually taken from it and then either dropped by the schema, with its
\* warning, or appended to the buffer and broadcast to the end.
C28_DispatchProgress ==
    /\ [](dispatch_task = "running")
    /\ \A id \in 1..MaxMsgs :
          (id \in Ids(queue)) ~>
              /\ id \notin Ids(queue)
              /\ \/ Drops(id) = {"schema"} /\ id \notin Ids(dispatched)
                 \/ Drops(id) = {} /\ Broadcast(id)

\* C28 witness: the queue is empty again after a message was dropped by the
\* schema and a later one was dispatched and sent to a websocket, with the
\* task running.
C28_Witness ==
    /\ dispatch_task = "running"
    /\ queue = <<>> /\ pc = "get"
    /\ \E i, k \in 1..Len(enqueued) :
          /\ i < k
          /\ Drops(enqueued[i].id) = {"schema"}
          /\ Broadcast(enqueued[k].id)
          /\ \E v \in Viewers : LiveFramesOf(v, enqueued[k].id) = 1

\* --------------------------------------------------------- knx2mqtt: claims
\* the telegrams received so far, by number
Tids == 1..Len(telegrams)

\* a message for telegram tid is in the sequence s of messages
HasMessage(s, tid) == \E i \in 1..Len(s) : s[i].timestamp = tid

\* telegram tid left the log record [level, ev]
Logged(tid, level, ev) == [level |-> level, ev |-> ev, tid |-> tid] \in dlog

\* the destination of t is a project address whose DPT has a transcoder
HasCodec(t) ==
    /\ t.destination \in GroupAddresses
    /\ GroupAddressInfo(t.destination).transcoder # None

\* t is a write or response whose raw value the transcoder cannot parse
DecodeFails(t) ==
    /\ HasCodec(t)
    /\ t.payload # None
    /\ t.payload.CODE \in WriteResponse
    /\ ~from_knx(GroupAddressInfo(t.destination).transcoder, t.payload.value).ok

\* C6 (decode failure): no message is published to the telemetry topic for a
\* write or response telegram whose payload the known codec fails to decode.
C6_DecodeFailureNotPublished ==
    \A tid \in Tids : DecodeFails(telegrams[tid]) => ~HasMessage(published, tid)

\* C14 (telemetry publish failure contained): when client.publish on the
\* telemetry topic raises or returns a failed result code, the failure is
\* logged and the bus listener callback does not raise.
C14_PublishFailureContained ==
    \A tid \in Tids :
        callbacks[tid].publish \in {"rc_failure", "raises"} =>
            /\ \E r \in dlog : r.tid = tid /\ r.ev = "publish_failed"
            /\ ~callbacks[tid].raised

\* the name of an enum member, as a plain string
MemberName(value) == [tag |-> "str", v |-> [tag |-> "name", cls |-> value.cls, v |-> value.v]]

\* C23 (enum flattening): every message published for a write or response
\* telegram whose payload the codec decodes to an enum member carries, as its
\* value, the name of that member as a plain string.
C23_EnumFlattening ==
    \A i \in 1..Len(published) :
        LET t == telegrams[published[i].timestamp]
            dec == from_knx(GroupAddressInfo(t.destination).transcoder, t.payload.value)
        IN  (t.payload.CODE \in WriteResponse /\ dec.ok /\ dec.value.tag = "enum_member")
                => published[i].value = MemberName(dec.value)

\* C7 (unknown destination): a telegram whose destination is not in
\* group_addresses is logged with a warning and no message is published or
\* printed for it, whatever its payload.
C7_UnknownDestination ==
    \A tid \in Tids :
        telegrams[tid].destination \notin GroupAddresses =>
            /\ Logged(tid, "warning", "unknown_destination")
            /\ ~HasMessage(published, tid)
            /\ ~HasMessage(printed, tid)

\* C7 witness: telegrams of two different payloads for an unknown destination
\* were received, by a daemon with and without an MQTT client.
C7_Witness ==
    /\ Len(telegrams) = 2
    /\ telegrams[1].destination = UnknownAddress
    /\ telegrams[2].destination = UnknownAddress
    /\ telegrams[1].payload # None
    /\ telegrams[1].payload.CODE = "GROUP_WRITE"
    /\ telegrams[2].payload # None
    /\ telegrams[2].payload.CODE = "GROUP_READ"
    /\ mqtt_client

\* C8 (value/kind invariant): every published GROUP_READ message has value
\* null, a published message with a non-null value is a GROUP_WRITE or a
\* GROUP_RESPONSE, and a read for a destination with a codec is still
\* forwarded when there is an MQTT client.
C8_ValueKind ==
    /\ \A i \in 1..Len(published) :
          /\ published[i].knx_message_type = "GROUP_READ" => published[i].value = None
          /\ published[i].value # None => published[i].knx_message_type \in WriteResponse
    /\ \A tid \in Tids :
          LET t == telegrams[tid] IN
          (mqtt_client /\ HasCodec(t) /\ t.payload # None /\ t.payload.CODE = "GROUP_READ")
              => HasMessage(published, tid)

\* C8 witness: a read message and a write message with a decoded value were
\* published.
C8_Witness ==
    /\ \E i \in 1..Len(published) : published[i].knx_message_type = "GROUP_READ"
    /\ \E i \in 1..Len(published) :
          /\ published[i].knx_message_type = "GROUP_WRITE"
          /\ published[i].value # None

\* C9 (unhandled kind): a telegram for a destination with a codec whose
\* message kind is none of write, response and read is logged and nothing is
\* published to the telemetry topic for it.
C9_UnhandledKind ==
    \A tid \in Tids :
        LET t == telegrams[tid] IN
        (HasCodec(t) /\ t.payload # None /\ t.payload.CODE \notin WriteResponse \cup {"GROUP_READ"})
            => /\ Logged(tid, "info", "unhandled_payload")
               /\ ~HasMessage(published, tid)

\* C9 witness: a daemon with an MQTT client received a telegram of another
\* kind for a destination with a codec.
C9_Witness ==
    /\ mqtt_client
    /\ \E tid \in Tids :
          /\ HasCodec(telegrams[tid])
          /\ telegrams[tid].payload # None
          /\ telegrams[tid].payload.CODE = "INDIVIDUAL_ADDRESS_READ"

\* C10 (no codec): a telegram whose destination is a project address without
\* transcoder is logged with an error and no message is published or printed
\* for it, for every message kind; a telegram never yields more than one
\* message.
C10_NoCodec ==
    /\ \A tid \in Tids :
          LET t == telegrams[tid] IN
          (t.destination \in GroupAddresses /\ GroupAddressInfo(t.destination).transcoder = None)
              => /\ Logged(tid, "error", "no_transcoder")
                 /\ ~HasMessage(published, tid)
                 /\ ~HasMessage(printed, tid)
    /\ \A i, j \in 1..Len(published) : published[i].timestamp = published[j].timestamp => i = j

\* C10 witness: a daemon with an MQTT client received a read and a write for
\* an address without transcoder.
C10_Witness ==
    /\ mqtt_client
    /\ Len(telegrams) = 2
    /\ \A tid \in Tids :
          /\ telegrams[tid].destination = "1/1/3"
          /\ telegrams[tid].payload # None
    /\ telegrams[1].payload.CODE = "GROUP_READ"
    /\ telegrams[2].payload.CODE = "GROUP_WRITE"

\* the devices and group addresses whose name or description contains room
Matches(room) ==
    {k \in ProjectKeys : \/ Contains(knx_project[k].name, room)
                         \/ Contains(knx_project[k].description, room)}

\* the bus listener lets the telegrams of every destination through
EveryAddressPasses == \A d \in Destinations : is_within_filter(registered, d)

\* C24 (room-based address filter): once the daemon is set up, the allow-list
\* holds exactly the devices and group addresses that match one of the
\* configured rooms, and with no room configured the allow-list is empty and
\* the telegrams of every address pass the listener.
C24_RoomFilter ==
    registered.set =>
        /\ Range(address_filters) =
              UNION {Matches(rooms_to_monitor[i]) : i \in 1..Len(rooms_to_monitor)}
        /\ registered.address_filters = address_filters
        /\ rooms_to_monitor = <<>> =>
              /\ address_filters = <<>>
              /\ EveryAddressPasses

\* C30 (non-matching rooms disable filtering): once the daemon is set up with
\* rooms none of which matches a device or group address, address_filters is
\* empty and the telegrams of every address pass the listener, as with no
\* room configured.
C30_NonMatchingRooms ==
    (/\ registered.set
     /\ rooms_to_monitor # <<>>
     /\ \A i \in 1..Len(rooms_to_monitor) : Matches(rooms_to_monitor[i]) = {})
        => /\ address_filters = <<>>
           /\ EveryAddressPasses

\* -------------------------------------------------- command channel: claims
\* the command channel logged [level, ev] for request or command n of side
CmdLogged(side, n, level, ev) ==
    \E r \in cmdlog : r.side = side /\ r.n = n /\ r.level = level /\ r.ev = ev

\* C11 (read-request failure surfaced): a read request whose publish to the
\* command topic failed (it raised, or its result code is not success) is
\* logged as an error and answered with an error response, not "queued".
C11_ReadRequestFailureSurfaced ==
    \A i \in 1..Len(requests) :
        requests[i].publish \in {"rc_failure", "raises"} =>
            /\ \E r \in cmdlog : r.side = "knxmonitor" /\ r.n = i /\ r.level = "error"
            /\ requests[i].response.status # 200
            /\ requests[i].response.body # "queued"

\* C22 (no command channel): while runtime.mqtt_client is None, every read
\* request with a non-empty destinations list is answered with a 503 error
\* and not with "queued", client.publish is not called for it, nothing is on
\* the command topic or in the command log, and the queue, the history
\* buffer, the viewer set and the dispatch task are as they were.
C22_NoCommandChannel ==
    monitor_client = "none" =>
        /\ \A i \in 1..Len(requests) :
              non_empty(requests[i].destinations) # <<>> =>
                  /\ requests[i].response.status = 503
                  /\ requests[i].response.body = "error"
                  /\ requests[i].publish = "not_called"
        /\ cmd_published = <<>>
        /\ cmdlog = {}
        /\ queue = <<>> /\ buffer = <<>> /\ active_connections = {}
        /\ dispatch_task = "running"

\* C22 witness: without MQTT client, a request with one destination and one
\* with two, one of them empty, were answered.
C22_Witness ==
    /\ monitor_client = "none"
    /\ Len(requests) = 2
    /\ requests[1].destinations = <<"1/1/1">>
    /\ requests[2].destinations = <<"", "1/1/1">>
    /\ requests[2].response.status = 503

\* msg is a command-topic message that __handle_command gets and that is
\* no read with a non-empty list of destinations
IsMalformedCommand(msg) ==
    /\ msg.topic = "cmd"
    /\ msg.body.tag # "not_json"
    /\ \/ msg.body.tag # "dict"
       \/ msg.body.action # "read"
       \/ msg.body.destinations.tag # "list"
       \/ msg.body.destinations.v = <<>>

\* the bus reads made for command n, in order
ReadsOf(n) == SelectSeq(bus_reads, LAMBDA r : r.cmd = n)

\* a coroutine for command n waits on the daemon's loop
Pending(n) == \E i \in 1..Len(coros) : coros[i].cmd = n

\* C12 (command intake filtering): a command whose action is not "read", or
\* whose destinations are missing, empty or not a list, is logged with a
\* warning and ignored: no coroutine is submitted and no bus read is made for
\* it, whether the daemon's loop is ready or not.
C12_CommandIntakeFiltering ==
    \A n \in 1..Len(commands) :
        IsMalformedCommand(commands[n]) =>
            /\ \/ CmdLogged("knx2mqtt", n, "warning", "unknown_action")
               \/ CmdLogged("knx2mqtt", n, "warning", "missing_destinations")
            /\ ~Pending(n)
            /\ ReadsOf(n) = <<>>

\* C12 witness: with the loop ready, a command with another action and a read
\* whose destinations are a string were handled.
C12_Witness ==
    /\ has_loop
    /\ Len(commands) = 2
    /\ commands[1].topic = "cmd" /\ commands[1].body.action = "write"
    /\ commands[2].topic = "cmd" /\ commands[2].body.action = "read"
    /\ commands[2].body.destinations.tag = "str"
    /\ coros = <<>>

\* C13 (batch read isolation): once the coroutine of a read command with
\* destinations d1..dn has run, a bus read was attempted for every di, in
\* order, and every read that failed left an error record for its address.
C13_BatchReadIsolation ==
    \A n \in 1..Len(commands) :
        LET msg == commands[n]
            rs == ReadsOf(n)
        IN  (/\ ~IsMalformedCommand(msg)
             /\ msg.topic = "cmd"
             /\ msg.body.tag = "dict"
             /\ ~CmdLogged("knx2mqtt", n, "warning", "loop_not_ready")
             /\ ~Pending(n))
            => /\ [i \in 1..Len(rs) |-> rs[i].ga] = msg.body.destinations.v
               /\ \A i \in 1..Len(rs) :
                     ~rs[i].ok =>
                         [side |-> "knx2mqtt", level |-> "error", ev |-> "read_failed",
                          n |-> n, ga |-> rs[i].ga] \in cmdlog

\* C13 witness: the coroutine of a read command whose first destination does
\* not parse has run, and the read of its second destination was made.
C13_Witness ==
    \E n \in 1..Len(commands) :
        /\ Len(ReadsOf(n)) = 2
        /\ ~ReadsOf(n)[1].ok
        /\ ReadsOf(n)[2].ok

\* command n is a read command on the command topic with a non-empty list of
\* destinations
IsReadCommand(n) ==
    /\ commands[n].topic = "cmd"
    /\ commands[n].body.tag = "dict"
    /\ ~IsMalformedCommand(commands[n])

\* C29 (early commands are lost): the broker's network loop delivers commands
\* before __run_async has recorded the event loop; as long as it has not,
\* every well-formed read command received was logged as ignored, no
\* coroutine waits and no bus read was made; and a command logged as ignored
\* has no coroutine and no bus read in any later state either.
C29_EarlyCommandsLost ==
    /\ ~has_loop =>
          /\ coros = <<>>
          /\ bus_reads = <<>>
          /\ \A n \in 1..Len(commands) :
                 IsReadCommand(n) => CmdLogged("knx2mqtt", n, "warning", "loop_not_ready")
    /\ \A n \in 1..Len(commands) :
          CmdLogged("knx2mqtt", n, "warning", "loop_not_ready") =>
              /\ IsReadCommand(n)
              /\ ~Pending(n)
              /\ ReadsOf(n) = <<>>

\* C29 witness: a read command that arrived before the loop was recorded has
\* no bus read after the loop was recorded and the reads of a later command
\* were made.
C29_Witness ==
    /\ has_loop
    /\ coros = <<>>
    /\ Len(commands) = 2
    /\ IsReadCommand(1)
    /\ CmdLogged("knx2mqtt", 1, "warning", "loop_not_ready")
    /\ ReadsOf(1) = <<>>
    /\ IsReadCommand(2)
    /\ commands[2].body.destinations = commands[1].body.destinations
    /\ \E i \in 1..Len(ReadsOf(2)) : ReadsOf(2)[i].ok

\* ------------------------------------------------ broker connections: claims
\* C19 (connect failure after startup is recoverable): whatever connect
\* failures and disconnects knx2mqtt's client has reported, its network
\* thread still runs and the bridge has not called disconnect().
C19_ConnectFailureRecoverable ==
    /\ conn["knx2mqtt"].loop
    /\ conn["knx2mqtt"].state # "closed"

\* C20 (subscribe on every connect): a program whose latest on_connect was
\* successful and whose connection is up has subscribed on that connection:
\* knx2mqtt to T/cmd, knxmonitor to T/data.
C20_SubscribeOnEveryConnect ==
    /\ conn["knx2mqtt"].state = "connected" => conn["knx2mqtt"].subscribed = "T/cmd"
    /\ conn["knxmonitor"].state = "connected" => conn["knxmonitor"].subscribed = "T/data"

\* C20 witness: both programs lost their first connection and are connected
\* again.
C20_Witness ==
    \A side \in Sides :
        /\ conn[side].state = "connected"
        /\ conn[side].attempts = 2
        /\ conn[side].subscribed # ""

=============================================================================
